---- MODULE Spec2Model ----
(***************************************************************************)
(* Regulatory-intelligence pipeline: the durable store (sources,           *)
(* regulation_events, event_history, crawl_runs), the dedup upsert, the    *)
(* manual event edit, the crawler, the analyzer and the crawl-run          *)
(* coordinator (runPipeline and the POST /api/crawl trigger).              *)
(*                                                                         *)
(* Text values are sequences of characters so that the normalisations the  *)
(* code applies (trim, whitespace collapse, lower-casing in JavaScript and *)
(* in SQLite) are computed, not assumed.  Timestamps are integers read     *)
(* from a clock that never goes backwards.                                 *)
(***************************************************************************)
EXTENDS Integers, Sequences, FiniteSets, TLC

VARIABLES
    clock,          \* wall clock read by new Date().toISOString()
    sources,        \* table sources, in rowid order (committed state)
    events,         \* table regulation_events, in rowid order (committed)
    event_history,  \* table event_history, in rowid order (committed)
    crawl_runs,     \* table crawl_runs, in rowid order
    nextId,         \* next fresh value of crypto.randomUUID()
    tx,             \* the open persist transaction (working copy) or NoTx
    inv,            \* the runPipeline invocations
    notifications,  \* table notifications: the rows, as a set
    lastOp,         \* the last call made from outside and what it returned
    laws,           \* table laws, in rowid order
    law_updates,    \* table law_updates, in rowid order
    sqlite_sequence,\* the largest rowid the AUTOINCREMENT tables laws and law_updates had
    request         \* the microblog search request in progress

vars == <<clock, sources, events, event_history, crawl_runs, nextId, tx, inv, notifications, lastOp,
          laws, law_updates, sqlite_sequence, request>>

(***************************************************************************)
(* Bounds of the model.                                                    *)
(***************************************************************************)
MaxClock == 1
MaxEvents == 2
MaxHistory == 3
MaxSequence == 4

(***************************************************************************)
(* Characters and strings.                                                 *)
(***************************************************************************)
Null == <<"NULL">>
Empty == <<>>

IsSpace(c) == c = " "

\* String.prototype.toLowerCase on one character (Unicode aware)
jsLowerChar(c) ==
    CASE c = "A" -> "a"
      [] c = "X" -> "x"
      [] c = "D" -> "d"
      [] c = "S" -> "s"
      [] OTHER -> c

\* SQLite lower() on one character (ASCII only)
sqlLowerChar(c) ==
    CASE c = "A" -> "a"
      [] c = "X" -> "x"
      [] c = "D" -> "d"
      [] c = "S" -> "s"
      [] OTHER -> c

toLowerCase(s) == [i \in 1..Len(s) |-> jsLowerChar(s[i])]

sqlLower(s) == [i \in 1..Len(s) |-> sqlLowerChar(s[i])]

RECURSIVE collapseWhitespace(_)
\* value.replace(/\s+/g, " ")
collapseWhitespace(s) ==
    IF Len(s) = 0 THEN <<>>
    ELSE IF IsSpace(s[1])
         THEN IF Len(s) > 1 /\ IsSpace(s[2])
              THEN collapseWhitespace(Tail(s))
              ELSE <<" ">> \o collapseWhitespace(Tail(s))
         ELSE <<s[1]>> \o collapseWhitespace(Tail(s))

RECURSIVE trimStart(_)
trimStart(s) ==
    IF Len(s) > 0 /\ IsSpace(s[1]) THEN trimStart(Tail(s)) ELSE s

RECURSIVE trimEnd(_)
trimEnd(s) ==
    IF Len(s) > 0 /\ IsSpace(s[Len(s)]) THEN trimEnd(SubSeq(s, 1, Len(s) - 1)) ELSE s

\* String.prototype.trim
trim(s) == trimEnd(trimStart(s))

\* Math.max
max(a, b) == IF a > b THEN a ELSE b

\* value ?? ""
orEmpty(v) == IF v = Null THEN Empty ELSE v

normalizeForHash(value) == toLowerCase(trim(collapseWhitespace(value)))

\* sha1 is taken to be collision free: the digest is identified with its input
hashText(value) == <<"sha1">> \o normalizeForHash(orEmpty(value))

buildRegulationKey(country, state, title) ==
    <<normalizeForHash(country), normalizeForHash(orEmpty(state)), normalizeForHash(title)>>

\* (input.sourceUrlLink ?? "").trim().toLowerCase()
normalizeUrl(url) == toLowerCase(trim(orEmpty(url)))

(***************************************************************************)
(* Schema constraints of regulation_events.                                *)
(***************************************************************************)
allowedStages ==
    {"proposed", "introduced", "committee_review", "passed", "enacted",
     "effective", "amended", "withdrawn", "rejected"}

allowedAgeBrackets == {"13-15", "16-18", "both"}

ScoreMin == 1
ScoreMax == 5

\* CHECK constraints of a regulation_events row
checkConstraints(row) ==
    /\ row.stage \in allowedStages
    /\ row.age_bracket \in allowedAgeBrackets
    /\ \A f \in {"impact_score", "likelihood_score", "confidence_score", "chili_score"} :
          row[f] >= ScoreMin /\ row[f] <= ScoreMax

\* FOREIGN KEY (source_id) REFERENCES sources (id)
foreignKeyOk(srcs, row) == \E i \in 1..Len(srcs) : srcs[i].id = row.source_id

\* UNIQUE INDEX idx_dedup_url_jurisdiction_title; rows with a NULL url never collide
uniqueDedupOk(evs, row) ==
    \A i \in 1..Len(evs) :
        ~ ( /\ evs[i].id # row.id
            /\ evs[i].source_url_link # Null
            /\ row.source_url_link # Null
            /\ evs[i].source_url_link = row.source_url_link
            /\ evs[i].jurisdiction_country = row.jurisdiction_country
            /\ evs[i].title = row.title )

(***************************************************************************)
(* addEventHistory: INSERT INTO event_history, id from AUTOINCREMENT.      *)
(***************************************************************************)
addEventHistory(hist, entry) ==
    Append(hist, [ id |-> Len(hist) + 1,
                   event_id |-> entry.eventId,
                   changed_at |-> entry.changedAt,
                   changed_by |-> entry.changedBy,
                   change_type |-> entry.changeType,
                   field_name |-> entry.fieldName,
                   previous_value |-> entry.previousValue,
                   new_value |-> entry.newValue ])

(***************************************************************************)
(* upsertEvent.                                                            *)
(***************************************************************************)
\* the WHERE clause of the candidates query
isCandidate(row, input) ==
    /\ sqlLower(row.jurisdiction_country) = sqlLower(input.jurisdictionCountry)
    /\ sqlLower(orEmpty(row.jurisdiction_state)) = sqlLower(orEmpty(input.jurisdictionState))
    /\ \/ sqlLower(row.title) = sqlLower(input.title)
       \/ /\ row.source_url_link # Null
          /\ sqlLower(row.source_url_link) = sqlLower(orEmpty(input.sourceUrlLink))

\* candidates.find without the guard on two distinct URLs
isMatchWithoutUrlGuard(row, input) ==
    LET regulationKey == buildRegulationKey(input.jurisdictionCountry, input.jurisdictionState, input.title)
        normalizedSourceUrl == normalizeUrl(input.sourceUrlLink)
        candidateUrl == normalizeUrl(row.source_url_link)
        urlMatch == normalizedSourceUrl # Empty /\ candidateUrl # Empty /\ normalizedSourceUrl = candidateUrl
        hashMatch == hashText(input.rawText) = hashText(row.raw_text)
        regulationMatch ==
            buildRegulationKey(row.jurisdiction_country, row.jurisdiction_state, row.title) = regulationKey
    IN  (urlMatch /\ regulationMatch) \/ (hashMatch /\ regulationMatch)

\* the predicate of candidates.find
isMatch(row, input) ==
    LET regulationKey == buildRegulationKey(input.jurisdictionCountry, input.jurisdictionState, input.title)
        normalizedSourceUrl == normalizeUrl(input.sourceUrlLink)
        contentHash == hashText(input.rawText)
        candidateRegulationKey ==
            buildRegulationKey(row.jurisdiction_country, row.jurisdiction_state, row.title)
        candidateUrl == normalizeUrl(row.source_url_link)
        candidateHash == hashText(row.raw_text)
        urlMatch == normalizedSourceUrl # Empty /\ candidateUrl # Empty /\ normalizedSourceUrl = candidateUrl
        hashMatch == contentHash = candidateHash
        regulationMatch == candidateRegulationKey = regulationKey
        bothHaveDistinctUrls ==
            normalizedSourceUrl # Empty /\ candidateUrl # Empty /\ normalizedSourceUrl # candidateUrl
    IN  (urlMatch /\ regulationMatch) \/ (~bothHaveDistinctUrls /\ hashMatch /\ regulationMatch)

\* positions of the rows the query returns that satisfy the find predicate
matchingRows(evs, input) ==
    { i \in 1..Len(evs) : isCandidate(evs[i], input) /\ isMatch(evs[i], input) }

\* ORDER BY updated_at DESC: the first match is one of the most recently updated
\* matches; SQL leaves the order among equal updated_at open.  0 stands for "none".
existingChoices(evs, input) ==
    LET m == matchingRows(evs, input)
    IN  IF m = {} THEN {0}
        ELSE { i \in m : \A j \in m : evs[j].updated_at <= evs[i].updated_at }

\* the comparison without the confidence score
isChangedIgnoringConfidence(existing, input) ==
    \/ existing.stage # input.stage
    \/ existing.summary # input.summary
    \/ existing.business_impact # input.businessImpact
    \/ existing.age_bracket # input.ageBracket
    \/ existing.impact_score # input.impactScore
    \/ existing.likelihood_score # input.likelihoodScore
    \/ existing.chili_score # input.chiliScore

\* the comparison extended to required_solutions, the stored JSON text against
\* the array of the input: the two are never identical
isChangedComparingLists(existing, input) ==
    \/ existing.stage # input.stage
    \/ existing.summary # input.summary
    \/ existing.business_impact # input.businessImpact
    \/ existing.age_bracket # input.ageBracket
    \/ existing.impact_score # input.impactScore
    \/ existing.likelihood_score # input.likelihoodScore
    \/ existing.confidence_score # input.confidenceScore
    \/ existing.chili_score # input.chiliScore
    \/ existing.required_solutions # Null
    \/ input.requiredSolutions # Null

\* the "changed" test of upsertEvent
isChanged(existing, input) ==
    \/ existing.stage # input.stage
    \/ existing.summary # input.summary
    \/ existing.business_impact # input.businessImpact
    \/ existing.age_bracket # input.ageBracket
    \/ existing.impact_score # input.impactScore
    \/ existing.likelihood_score # input.likelihoodScore
    \/ existing.confidence_score # input.confidenceScore
    \/ existing.chili_score # input.chiliScore

\* an UPDATE that also takes the title, the URL, the text and the dates of the
\* input
updatedRowOverwriting(existing, input, now) ==
    [existing EXCEPT
        !.title = input.title,
        !.source_url_link = input.sourceUrlLink,
        !.raw_text = input.rawText,
        !.effective_date = input.effectiveDate,
        !.published_date = input.publishedDate,
        !.stage = input.stage,
        !.summary = input.summary,
        !.business_impact = input.businessImpact,
        !.required_solutions = input.requiredSolutions,
        !.affected_products = input.affectedProducts,
        !.competitor_responses = input.competitorResponses,
        !.age_bracket = input.ageBracket,
        !.impact_score = input.impactScore,
        !.likelihood_score = input.likelihoodScore,
        !.confidence_score = input.confidenceScore,
        !.chili_score = input.chiliScore,
        !.updated_at = now]

\* the UPDATE regulation_events statement of the "changed" branch
updatedRow(existing, input, now) ==
    [existing EXCEPT
        !.stage = input.stage,
        !.summary = input.summary,
        !.business_impact = input.businessImpact,
        !.required_solutions = input.requiredSolutions,
        !.affected_products = input.affectedProducts,
        !.competitor_responses = input.competitorResponses,
        !.age_bracket = input.ageBracket,
        !.impact_score = input.impactScore,
        !.likelihood_score = input.likelihoodScore,
        !.confidence_score = input.confidenceScore,
        !.chili_score = input.chiliScore,
        !.updated_at = now]

\* the INSERT INTO regulation_events statement
insertedRow(id, input, now) ==
    [ id |-> id,
      title |-> input.title,
      jurisdiction_country |-> input.jurisdictionCountry,
      jurisdiction_state |-> input.jurisdictionState,
      stage |-> input.stage,
      is_under16_applicable |-> IF input.isUnder16Applicable THEN 1 ELSE 0,
      age_bracket |-> input.ageBracket,
      impact_score |-> input.impactScore,
      likelihood_score |-> input.likelihoodScore,
      confidence_score |-> input.confidenceScore,
      chili_score |-> input.chiliScore,
      summary |-> input.summary,
      business_impact |-> input.businessImpact,
      required_solutions |-> input.requiredSolutions,
      affected_products |-> input.affectedProducts,
      competitor_responses |-> input.competitorResponses,
      raw_text |-> input.rawText,
      source_url_link |-> input.sourceUrlLink,
      effective_date |-> input.effectiveDate,
      published_date |-> input.publishedDate,
      source_id |-> input.sourceId,
      created_at |-> now,
      updated_at |-> now ]

\* the history row written on the "changed" branch
updateHistoryEntry(existing, input, now) ==
    IF existing.stage # input.stage
    THEN [ eventId |-> existing.id, changeType |-> "status_changed", fieldName |-> "stage",
           previousValue |-> existing.stage, newValue |-> input.stage,
           changedBy |-> "pipeline", changedAt |-> now ]
    ELSE [ eventId |-> existing.id, changeType |-> "updated", fieldName |-> "analysis",
           previousValue |-> "null", newValue |-> "Pipeline refresh",
           changedBy |-> "pipeline", changedAt |-> now ]

\* the history row of an insert written with the change type of an update
createdHistoryEntryAsUpdated(id, now) ==
    [ eventId |-> id, changeType |-> "updated", fieldName |-> "event",
      previousValue |-> "null", newValue |-> "Event created",
      changedBy |-> "pipeline", changedAt |-> now ]

\* the history row written after an insert
createdHistoryEntry(id, now) ==
    [ eventId |-> id, changeType |-> "created", fieldName |-> "event",
      previousValue |-> "null", newValue |-> "Event created",
      changedBy |-> "pipeline", changedAt |-> now ]

\* upsertEvent on the tables (srcs, evs, hist); ex is the row candidates.find
\* returned (0 for none), id the fresh UUID, now the clock reading.  The result
\* is "new", "updated", "duplicate", or "raised" when a statement throws; a
\* statement that throws changes nothing.
upsertEvent(srcs, evs, hist, input, ex, id, now) ==
    IF ex # 0
    THEN IF ~isChanged(evs[ex], input)
         THEN [ result |-> "duplicate", matched |-> evs[ex].id, events |-> evs, event_history |-> hist ]
         ELSE IF ~checkConstraints(updatedRow(evs[ex], input, now))
              THEN [ result |-> "raised", matched |-> evs[ex].id, events |-> evs, event_history |-> hist ]
              ELSE [ result |-> "updated", matched |-> evs[ex].id,
                     events |-> [evs EXCEPT ![ex] = updatedRow(evs[ex], input, now)],
                     event_history |-> addEventHistory(hist, updateHistoryEntry(evs[ex], input, now)) ]
    ELSE LET row == insertedRow(id, input, now)
         IN  IF checkConstraints(row) /\ foreignKeyOk(srcs, row) /\ uniqueDedupOk(evs, row)
             THEN [ result |-> "new", matched |-> 0,
                    events |-> Append(evs, row),
                    event_history |-> addEventHistory(hist, createdHistoryEntry(id, now)) ]
             ELSE [ result |-> "raised", matched |-> 0, events |-> evs, event_history |-> hist ]

(***************************************************************************)
(* ensureSource.                                                           *)
(***************************************************************************)
allowedAuthorities == {"national", "state", "local", "supranational"}

TierMin == 1
TierMax == 5

\* CHECK constraints of a sources row
sourceCheckOk(row) ==
    /\ row.authority_type \in allowedAuthorities
    /\ row.reliability_tier >= TierMin /\ row.reliability_tier <= TierMax

\* name TEXT NOT NULL UNIQUE, url TEXT NOT NULL UNIQUE
sourceUniqueOk(srcs, row) ==
    \A i \in 1..Len(srcs) :
        srcs[i].id # row.id => (srcs[i].name # row.name /\ srcs[i].url # row.url)

\* SELECT id FROM sources WHERE name = ? OR url = ? LIMIT 1: without ORDER BY
\* any matching row may be the one returned.  0 stands for "no row".
sourceChoices(srcs, source) ==
    LET m == { i \in 1..Len(srcs) : srcs[i].name = source.name \/ srcs[i].url = source.url }
    IN  IF m = {} THEN {0} ELSE m

\* ensureSource on the table srcs; ex is the row the SELECT returned (0: none).
\* ok is FALSE when a statement throws, and then nothing is changed.
ensureSource(srcs, source, ex, now) ==
    IF ex # 0
    THEN LET row == [srcs[ex] EXCEPT
                        !.name = source.name,
                        !.url = source.url,
                        !.authority_type = source.authorityType,
                        !.jurisdiction = source.jurisdiction,
                        !.reliability_tier = source.reliabilityTier,
                        !.last_crawled_at = now]
         IN  IF sourceCheckOk(row) /\ sourceUniqueOk(srcs, row)
             THEN [ ok |-> TRUE, id |-> srcs[ex].id, sources |-> [srcs EXCEPT ![ex] = row] ]
             ELSE [ ok |-> FALSE, id |-> 0, sources |-> srcs ]
    ELSE LET row == [ id |-> Len(srcs) + 1,
                      name |-> source.name,
                      url |-> source.url,
                      authority_type |-> source.authorityType,
                      jurisdiction |-> source.jurisdiction,
                      reliability_tier |-> source.reliabilityTier,
                      last_crawled_at |-> -1,
                      created_at |-> now ]
         IN  IF sourceCheckOk(row) /\ sourceUniqueOk(srcs, row)
             THEN [ ok |-> TRUE, id |-> row.id, sources |-> Append(srcs, row) ]
             ELSE [ ok |-> FALSE, id |-> 0, sources |-> srcs ]

(***************************************************************************)
(* PATCH /api/events/:id, the manual event edit.                           *)
(***************************************************************************)
\* allowedFields: API field name -> column
allowedFields ==
    [ title |-> "title", summary |-> "summary", businessImpact |-> "business_impact",
      stage |-> "stage", ageBracket |-> "age_bracket", impactScore |-> "impact_score",
      likelihoodScore |-> "likelihood_score", confidenceScore |-> "confidence_score",
      chiliScore |-> "chili_score", effectiveDate |-> "effective_date",
      publishedDate |-> "published_date" ]

\* the columns the body sets
patchColumns(body) == { allowedFields[a] : a \in (DOMAIN body) \cap (DOMAIN allowedFields) }

\* UPDATE regulation_events SET <clauses>, updated_at = ? WHERE id = ?
patchedRow(row, body, now) ==
    [ f \in DOMAIN row |->
        IF f = "updated_at" THEN now
        ELSE IF f \in patchColumns(body)
             THEN body[CHOOSE a \in (DOMAIN body) \cap (DOMAIN allowedFields) : allowedFields[a] = f]
             ELSE row[f] ]

\* the handler on the tables; status is the HTTP status (500: a statement threw)
patchEvent(evs, hist, id, body, now) ==
    LET pos == { i \in 1..Len(evs) : evs[i].id = id }
    IN  IF pos = {}
        THEN [ status |-> 404, events |-> evs, event_history |-> hist ]
        ELSE IF patchColumns(body) = {}
        THEN [ status |-> 400, events |-> evs, event_history |-> hist ]
        ELSE LET i == CHOOSE i \in pos : TRUE
                 row == patchedRow(evs[i], body, now)
             IN  IF checkConstraints(row) /\ uniqueDedupOk(evs, row)
                 THEN [ status |-> 200,
                        events |-> [evs EXCEPT ![i] = row],
                        event_history |->
                            addEventHistory(hist,
                                [ eventId |-> id, changeType |-> "updated", fieldName |-> "manual_edit",
                                  previousValue |-> "null", newValue |-> "body",
                                  changedBy |-> "analyst", changedAt |-> now ]) ]
                 ELSE [ status |-> 500, events |-> evs, event_history |-> hist ]

(***************************************************************************)
(* Canonical laws: the law an event is an update of.                       *)
(***************************************************************************)
\* [a-z0-9]
keyChars ==
    { "a", "b", "c", "d", "e", "f", "g", "h", "i", "j", "k", "l", "m", "n", "o", "p", "q",
      "r", "s", "t", "u", "v", "w", "x", "y", "z",
      "0", "1", "2", "3", "4", "5", "6", "7", "8", "9" }

\* value.replace(/\s+/g, " ").trim()
normalizeWhitespace(value) == trim(collapseWhitespace(value))

RECURSIVE dashed(_)
\* .replace(/['’]/g, "").replace(/[^a-z0-9]+/g, "-").replace(/-+/g, "-")
dashed(s) ==
    IF Len(s) = 0 THEN <<>>
    ELSE IF s[1] = "'" THEN dashed(Tail(s))
    ELSE LET rest == dashed(Tail(s))
         IN  IF s[1] \in keyChars THEN <<s[1]>> \o rest
             ELSE IF Len(rest) > 0 /\ rest[1] = "-" THEN rest
             ELSE <<"-">> \o rest

\* .replace(/^-|-$/g, "")
stripDashes(s) ==
    LET a == IF Len(s) > 0 /\ s[1] = "-" THEN Tail(s) ELSE s
    IN  IF Len(a) > 0 /\ a[Len(a)] = "-" THEN SubSeq(a, 1, Len(a) - 1) ELSE a

normalizeForKey(value) == stripDashes(dashed(toLowerCase(normalizeWhitespace(value))))

RECURSIVE splitFrom(_, _)
\* value.split(" ") of a string, the word in hand being cur
splitFrom(s, cur) ==
    IF Len(s) = 0 THEN <<cur>>
    ELSE IF s[1] = " " THEN <<cur>> \o splitFrom(Tail(s), <<>>)
    ELSE splitFrom(Tail(s), Append(cur, s[1]))

\* value.split(" ").filter(Boolean)
words(s) == SelectSeq(splitFrom(s, <<>>), LAMBDA w : w # <<>>)

RECURSIVE join(_, _)
\* parts.join(sep)
join(parts, sep) ==
    IF Len(parts) = 0 THEN <<>>
    ELSE IF Len(parts) = 1 THEN parts[1]
    ELSE parts[1] \o sep \o join(Tail(parts), sep)

\* the texts of the model have letters and blanks only, where \b<word>\b
\* matches when the word is one of the blank-separated words
hasWord(text, word, ignoreCase) ==
    \E i \in 1..Len(words(text)) :
        IF ignoreCase THEN toLowerCase(words(text)[i]) = toLowerCase(word)
        ELSE words(text)[i] = word

\* the acronyms of knownLawAcronyms that the alphabet of the model can spell
knownLawAcronyms == << <<"D", "S", "A">> >>

\* the law keywords, the bill numbers and the legal phrases need letters or
\* digits that the texts of the model do not have: the companion, the bill and
\* the named-law expressions match none of them; found is FALSE for null
extractLawPhrase(text) ==
    LET normalized == normalizeWhitespace(text)
        found == { i \in 1..Len(knownLawAcronyms) : hasWord(normalized, knownLawAcronyms[i], TRUE) }
    IN  IF found # {}
        THEN LET acronym == knownLawAcronyms[CHOOSE i \in found : \A j \in found : i <= j]
             IN  [ found |-> TRUE, lawName |-> acronym, lawType |-> "law", lawIdentifier |-> acronym ]
        ELSE [ found |-> FALSE ]

\* the words of the title, eight at most; "u" stands for "Unspecified
\* Regulation" and for "unspecified-regulation"
fallbackLawName(input) ==
    LET w == words(normalizeWhitespace(input.title))
        titleWords == join(SubSeq(w, 1, IF Len(w) < 8 THEN Len(w) ELSE 8), <<" ">>)
    IN  [ lawName |-> IF titleWords = <<>> THEN <<"u">> ELSE titleWords,
          lawType |-> "law",
          lawIdentifier |-> IF titleWords = <<>> THEN <<"u">> ELSE titleWords ]

\* input: title, summary, content, jurisdictionCountry, jurisdictionState
inferCanonicalLaw(input) ==
    LET text == input.title \o <<" ">> \o orEmpty(input.summary) \o <<" ">> \o orEmpty(input.content)
        phrase == extractLawPhrase(text)
        parsed == IF phrase.found THEN phrase ELSE fallbackLawName(input)
        parts == SelectSeq(<< normalizeForKey(input.jurisdictionCountry),
                              normalizeForKey(orEmpty(input.jurisdictionState)) >>,
                           LAMBDA v : v # <<>>)
        jurisdictionKey == join(parts, <<":">>)
        subjectKey == normalizeForKey(parsed.lawIdentifier)
    IN  [ lawName |-> parsed.lawName,
          lawType |-> parsed.lawType,
          lawIdentifier |-> parsed.lawIdentifier,
          lawKey |-> (IF jurisdictionKey = <<>> THEN <<"global">> ELSE jurisdictionKey)
                     \o <<":">>
                     \o (IF subjectKey = <<>> THEN <<"unspecified-law">> ELSE subjectKey) ]

(***************************************************************************)
(* backfillLawsFromEvents: laws and law_updates rebuilt from the events.   *)
(* Times are counted in days.                                              *)
(***************************************************************************)
\* a date column holds a text the analyzer gave or an ISO timestamp of the store
textDate(s) == [ text |-> s ]
isoDate(n) == [ iso |-> n ]

\* the largest integer the model counts with, for Number.MAX_SAFE_INTEGER
MAX_SAFE_INTEGER == 2147483647

\* Date.parse of the date texts: "d" is a day 400 days before the store was
\* made, any other text is not a date
parseDateOr(value, fallback) ==
    IF "iso" \in DOMAIN value THEN value.iso
    ELSE IF value.text = Empty THEN fallback
    ELSE IF value.text = <<"d">> THEN -400
    ELSE fallback

\* row.published_date ?? row.effective_date ?? row.updated_at ?? row.created_at
pickEventReferenceDate(row) ==
    IF row.published_date # Null THEN textDate(row.published_date)
    ELSE IF row.effective_date # Null THEN textDate(row.effective_date)
    ELSE isoDate(row.updated_at)

\* the weight in hundredths
computeRecencyWeight(referenceDate, nowTs) ==
    LET ageDays == max(0, nowTs - parseDateOr(referenceDate, nowTs))
    IN  IF ageDays <= 30 THEN 100
        ELSE IF ageDays <= 90 THEN 90
        ELSE IF ageDays <= 180 THEN 80
        ELSE IF ageDays <= 365 THEN 65
        ELSE IF ageDays <= 730 THEN 50
        ELSE 35

\* the risk in tenths
computeOverallEventRisk(row) ==
    row.chili_score * 4 + row.impact_score * 3 + row.likelihood_score * 2 + row.confidence_score

\* the names of the model have no law keyword, no year and none of the
\* phrases that lower the score
scoreCanonicalLawName(name) ==
    LET normalized == trim(name)
        w == words(collapseWhitespace(normalized))
    IN  (IF hasWord(collapseWhitespace(normalized), <<"D", "S", "A">>, FALSE) THEN 4 ELSE 0)
        - (IF \E i \in 1..Len(normalized) : normalized[i] \in {".", "!", "?"} THEN 2 ELSE 0)
        - max(0, Len(w) - 10)

\* a quotient of two integers, kept as the pair
quotient(n, d) == [ num |-> n, den |-> d ]

RECURSIVE sum(_)
\* the sum of a sequence of integers
sum(seq) == IF Len(seq) = 0 THEN 0 ELSE seq[1] + sum(Tail(seq))

RECURSIVE insertIndex(_, _, _)
\* index i put into the order behind every index whose key is not less
insertIndex(order, i, key) ==
    IF Len(order) = 0 THEN <<i>>
    ELSE IF key[i] > key[order[1]] THEN <<i>> \o order
    ELSE <<order[1]>> \o insertIndex(Tail(order), i, key)

RECURSIVE orderUpTo(_, _)
orderUpTo(n, key) == IF n = 0 THEN <<>> ELSE insertIndex(orderUpTo(n - 1, key), n, key)

\* Array.prototype.sort((a, b) => key(b) - key(a)), which is stable; key is the
\* sequence of the keys of seq
sortDescending(seq, key) ==
    LET order == orderUpTo(Len(seq), key) IN [ k \in 1..Len(seq) |-> seq[order[k]] ]

\* SELECT ... FROM regulation_events e JOIN sources s ON s.id = e.source_id
\* ORDER BY e.updated_at DESC, e.id ASC
eventRowsOf(srcs, evs) ==
    LET joined == SelectSeq(evs, LAMBDA e : \E i \in 1..Len(srcs) : srcs[i].id = e.source_id)
        sourceOfEvent(e) == srcs[CHOOSE i \in 1..Len(srcs) : srcs[i].id = e.source_id]
        rows == [ i \in 1..Len(joined) |->
                    [ event |-> joined[i],
                      source_name |-> sourceOfEvent(joined[i]).name,
                      source_url |-> sourceOfEvent(joined[i]).url,
                      source_reliability_tier |-> sourceOfEvent(joined[i]).reliability_tier ] ]
        byId == sortDescending(rows, [ i \in 1..Len(rows) |-> 0 - rows[i].event.id ])
    IN  sortDescending(byId, [ i \in 1..Len(byId) |-> byId[i].event.updated_at ])

\* the canonical law of a row taken from its title alone
canonicalOfTitle(row) ==
    inferCanonicalLaw([ title |-> row.event.title,
                        summary |-> Null,
                        content |-> Null,
                        jurisdictionCountry |-> row.event.jurisdiction_country,
                        jurisdictionState |-> row.event.jurisdiction_state ])

\* the canonical law of a row
canonicalOf(row) ==
    inferCanonicalLaw([ title |-> row.event.title,
                        summary |-> row.event.summary,
                        content |-> row.event.raw_text,
                        jurisdictionCountry |-> row.event.jurisdiction_country,
                        jurisdictionState |-> row.event.jurisdiction_state ])

RECURSIVE groupsFrom(_, _, _)
\* the Map groups, in the order of its keys, after rows i.. of eventRows
groupsFrom(eventRows, i, groups) ==
    IF i > Len(eventRows) THEN groups
    ELSE LET row == eventRows[i]
             canonical == canonicalOf(row)
             canonicalNameScore == scoreCanonicalLawName(canonical.lawName)
             at == { g \in 1..Len(groups) : groups[g].lawKey = canonical.lawKey }
         IN  IF at # {}
             THEN LET g == CHOOSE x \in at : TRUE
                      existing == groups[g]
                      better == \/ canonicalNameScore > existing.lawNameScore
                                \/ /\ canonicalNameScore = existing.lawNameScore
                                   /\ Len(canonical.lawName) < Len(existing.lawName)
                  IN  groupsFrom(eventRows, i + 1,
                        [groups EXCEPT ![g] =
                            [existing EXCEPT
                                !.updates = Append(@, row),
                                !.lawName = IF better THEN canonical.lawName ELSE @,
                                !.lawNameScore = IF better THEN canonicalNameScore ELSE @,
                                !.lawType = IF @ = "law" /\ canonical.lawType # "law"
                                            THEN canonical.lawType ELSE @]])
             ELSE groupsFrom(eventRows, i + 1,
                    Append(groups,
                        [ lawKey |-> canonical.lawKey,
                          lawName |-> canonical.lawName,
                          lawType |-> canonical.lawType,
                          lawNameScore |-> canonicalNameScore,
                          jurisdictionCountry |-> row.event.jurisdiction_country,
                          jurisdictionState |-> row.event.jurisdiction_state,
                          updates |-> <<row>> ]))

\* the updates of a group, the latest reference date first
updatesSortedOf(group) ==
    sortDescending(group.updates,
                   [ i \in 1..Len(group.updates) |->
                       parseDateOr(pickEventReferenceDate(group.updates[i].event), 0) ])

RECURSIVE firstSeenFrom(_, _, _)
\* group.updates.reduce over the rows i.., min being the earliest so far
firstSeenFrom(updates, i, min) ==
    IF i > Len(updates) THEN min
    ELSE LET candidate == pickEventReferenceDate(updates[i].event)
         IN  firstSeenFrom(updates, i + 1,
                IF parseDateOr(candidate, MAX_SAFE_INTEGER) < parseDateOr(min, MAX_SAFE_INTEGER)
                THEN candidate ELSE min)

RECURSIVE lastSeenFrom(_, _, _)
\* group.updates.reduce over the rows i.., mx being the latest so far
lastSeenFrom(updates, i, mx) ==
    IF i > Len(updates) THEN mx
    ELSE LET candidate == isoDate(updates[i].event.updated_at)
         IN  lastSeenFrom(updates, i + 1,
                IF parseDateOr(candidate, 0) > parseDateOr(mx, 0) THEN candidate ELSE mx)

RECURSIVE maxOf(_)
\* Math.max(...values) of a sequence that is not empty
maxOf(values) == IF Len(values) = 1 THEN values[1] ELSE max(values[1], maxOf(Tail(values)))

\* the row INSERT INTO laws writes for a group
lawRowOf(group, lawId, now) ==
    LET updatesSorted == updatesSortedOf(group)
        latest == updatesSorted[1]
        n == Len(group.updates)
        firstSeen == firstSeenFrom(group.updates, 1, pickEventReferenceDate(group.updates[1].event))
        lastSeen == lastSeenFrom(group.updates, 1, isoDate(latest.event.updated_at))
        dates == SelectSeq([ i \in 1..n |-> group.updates[i].event.effective_date ],
                           LAMBDA v : v # Null /\ v # Empty)
        effective == sortDescending(dates, [ i \in 1..Len(dates) |-> parseDateOr(textDate(dates[i]), 0) ])
        aggregateRiskMax == maxOf([ i \in 1..n |-> group.updates[i].event.chili_score ])
        weight == [ i \in 1..n |-> computeRecencyWeight(pickEventReferenceDate(group.updates[i].event), now) ]
        weightedRiskNumerator == sum([ i \in 1..n |-> group.updates[i].event.chili_score * weight[i] ])
        weightedRiskDenominator == sum(weight)
    IN  [ id |-> lawId,
          law_key |-> group.lawKey,
          law_name |-> group.lawName,
          jurisdiction_country |-> group.jurisdictionCountry,
          jurisdiction_state |-> group.jurisdictionState,
          law_type |-> group.lawType,
          stage |-> latest.event.stage,
          status |-> latest.event.stage,
          first_seen_at |-> firstSeen,
          last_seen_at |-> lastSeen,
          latest_effective_date |-> IF Len(effective) = 0 THEN Null ELSE effective[1],
          aggregate_risk_max |-> aggregateRiskMax,
          aggregate_risk_recent_weighted |-> quotient(weightedRiskNumerator, weightedRiskDenominator),
          aggregate_risk_overall |->
              quotient(sum([ i \in 1..n |-> computeOverallEventRisk(group.updates[i].event) ]), 10 * n),
          source_confidence |->
              quotient(sum([ i \in 1..n |-> group.updates[i].source_reliability_tier ]), n),
          created_at |-> now,
          updated_at |-> now ]

\* the row INSERT INTO law_updates writes for an update of the law lawId
lawUpdateRowOf(update, lawId, id) ==
    [ id |-> id,
      law_id |-> lawId,
      event_id |-> update.event.id,
      source_item_id |-> Null,
      update_title |-> update.event.title,
      update_summary |-> update.event.summary,
      source_url |-> update.event.source_url_link,
      source_name |-> update.source_name,
      published_date |-> update.event.published_date,
      effective_date |-> update.event.effective_date,
      stage |-> update.event.stage,
      chili_score |-> update.event.chili_score,
      impact_score |-> update.event.impact_score,
      likelihood_score |-> update.event.likelihood_score,
      confidence_score |-> update.event.confidence_score,
      created_at |-> update.event.updated_at,
      raw_metadata |-> [ ageBracket |-> update.event.age_bracket,
                         jurisdictionCountry |-> update.event.jurisdiction_country,
                         jurisdictionState |-> update.event.jurisdiction_state,
                         sourceReliabilityTier |-> update.source_reliability_tier,
                         sourceUrl |-> update.source_url ] ]

RECURSIVE insertsFrom(_, _, _, _, _)
\* the INSERT statements of the groups g.., in the order they are run; lawId and
\* updateId are the rowids used so far
insertsFrom(groups, g, lawId, updateId, now) ==
    IF g > Len(groups) THEN <<>>
    ELSE LET updatesSorted == updatesSortedOf(groups[g])
         IN  << [ op |-> "insertLaw", row |-> lawRowOf(groups[g], lawId + 1, now) ] >>
             \o [ i \in 1..Len(updatesSorted) |->
                    [ op |-> "insertLawUpdate",
                      row |-> lawUpdateRowOf(updatesSorted[i], lawId + 1, updateId + i) ] ]
             \o insertsFrom(groups, g + 1, lawId + 1, updateId + Len(updatesSorted), now)

\* the statements of the transaction
statementsOf(groups, sequence, now) ==
    << [ op |-> "deleteLawUpdates" ], [ op |-> "deleteLaws" ] >>
    \o insertsFrom(groups, 1, sequence.laws, sequence.law_updates, now)

\* the tables after a statement that keeps the rows DELETE FROM laws removes
afterStatementKeepingLaws(t, stmt) ==
    CASE stmt.op = "deleteLawUpdates" -> t
      [] stmt.op = "deleteLaws" -> t
      [] stmt.op = "insertLaw" ->
            [t EXCEPT !.laws = Append(@, stmt.row), !.sqlite_sequence.laws = stmt.row.id]
      [] stmt.op = "insertLawUpdate" ->
            [t EXCEPT !.law_updates = Append(@, stmt.row),
                      !.sqlite_sequence.law_updates = stmt.row.id]

\* the tables after a statement; the FOREIGN KEYs of law_updates hold by the
\* order of the statements, and ON DELETE CASCADE empties law_updates with laws
afterStatement(t, stmt) ==
    CASE stmt.op = "deleteLawUpdates" -> [t EXCEPT !.law_updates = <<>>]
      [] stmt.op = "deleteLaws" ->
            [t EXCEPT !.laws = <<>>, !.law_updates = <<>>]
      [] stmt.op = "insertLaw" ->
            [t EXCEPT !.laws = Append(@, stmt.row), !.sqlite_sequence.laws = stmt.row.id]
      [] stmt.op = "insertLawUpdate" ->
            [t EXCEPT !.law_updates = Append(@, stmt.row),
                      !.sqlite_sequence.law_updates = stmt.row.id]

RECURSIVE afterStatements(_, _, _)
\* the tables after the first n statements
afterStatements(t, stmts, n) ==
    IF n = 0 THEN t ELSE afterStatement(afterStatements(t, stmts, n - 1), stmts[n])

\* the statements run without db.transaction: each commits by itself
autocommit(t, stmts, failAt) ==
    IF failAt \in 1..Len(stmts)
    THEN [ result |-> "raised", tables |-> afterStatements(t, stmts, failAt - 1) ]
    ELSE [ result |-> "returned", tables |-> afterStatements(t, stmts, Len(stmts)) ]

\* db.transaction(fn)() on the tables t = [laws, law_updates, sqlite_sequence]:
\* statement failAt raises (0: none does), and then the transaction is rolled
\* back and the call throws
transaction(t, stmts, failAt) ==
    IF failAt \in 1..Len(stmts)
    THEN [ result |-> "raised", tables |-> t ]
    ELSE [ result |-> "returned", tables |-> afterStatements(t, stmts, Len(stmts)) ]

(***************************************************************************)
(* crawl_runs.                                                             *)
(***************************************************************************)
startCrawlRun(runs, now) ==
    Append(runs, [ id |-> Len(runs) + 1, started_at |-> now, completed_at |-> -1,
                   status |-> "running", items_found |-> 0, items_new |-> 0,
                   items_updated |-> 0, error_message |-> "null" ])

completeCrawlRun(runs, runId, stats, now) ==
    [ i \in 1..Len(runs) |->
        IF runs[i].id = runId
        THEN [runs[i] EXCEPT !.completed_at = now, !.status = "completed",
                             !.items_found = stats.itemsFound,
                             !.items_new = stats.itemsNew,
                             !.items_updated = stats.itemsUpdated]
        ELSE runs[i] ]

failCrawlRun(runs, runId, error, now) ==
    [ i \in 1..Len(runs) |->
        IF runs[i].id = runId
        THEN [runs[i] EXCEPT !.completed_at = now, !.status = "failed", !.error_message = error]
        ELSE runs[i] ]

\* SELECT * FROM crawl_runs ORDER BY id DESC LIMIT 1; NoRun when the table is empty
NoRun == [ id |-> 0, status |-> "never_run" ]

\* the query with ORDER BY id ASC: the oldest run
getOldestCrawlRun(runs) == IF Len(runs) = 0 THEN NoRun ELSE runs[1]

getLatestCrawlRun(runs) == IF Len(runs) = 0 THEN NoRun ELSE runs[Len(runs)]


(***************************************************************************)
(* Inputs of the direct store calls.                                       *)
(***************************************************************************)
baseInput ==
    [ title |-> <<"a">>,
      jurisdictionCountry |-> <<"u">>,
      jurisdictionState |-> Null,
      stage |-> "proposed",
      isUnder16Applicable |-> TRUE,
      ageBracket |-> "both",
      impactScore |-> 3,
      likelihoodScore |-> 3,
      confidenceScore |-> 3,
      chiliScore |-> 3,
      summary |-> <<"s">>,
      businessImpact |-> <<"m">>,
      requiredSolutions |-> <<"r">>,
      affectedProducts |-> <<"i">>,
      competitorResponses |-> Null,
      rawText |-> <<"p">>,
      sourceUrlLink |-> <<"x">>,
      effectiveDate |-> Null,
      publishedDate |-> <<"d">>,
      sourceId |-> 1 ]

withIdentity(input, title, state, url, text) ==
    [input EXCEPT !.title = title, !.jurisdictionState = state,
                  !.sourceUrlLink = url, !.rawText = text]

\* the analysis fields of an input changed one at a time, and two at once
analysisVariants(input) ==
    { input,
      [input EXCEPT !.stage = "enacted"],
      [input EXCEPT !.summary = <<"t">>],
      [input EXCEPT !.businessImpact = Null],
      [input EXCEPT !.ageBracket = "13-15"],
      [input EXCEPT !.impactScore = 4],
      [input EXCEPT !.likelihoodScore = 4],
      [input EXCEPT !.confidenceScore = 4],
      [input EXCEPT !.chiliScore = 5],
      [input EXCEPT !.stage = "enacted", !.chiliScore = 5],
      [input EXCEPT !.requiredSolutions = Null] }

\* inputs of the dedup checks: one event, its URL and text varied
storeInputs ==
    { withIdentity(baseInput, <<"a">>, Null, <<"x">>, <<"p">>),
      withIdentity(baseInput, <<"a">>, Null, <<"X">>, <<"q">>),
      withIdentity(baseInput, <<"a">>, Null, <<"y">>, <<"p">>),
      withIdentity(baseInput, <<"a">>, Null, Empty, <<"p">>),
      withIdentity(baseInput, <<"a">>, <<"c">>, <<"x">>, <<"p">>),
      [withIdentity(baseInput, <<"a">>, Null, <<"y">>, <<"p">>) EXCEPT !.stage = "enacted"] }

\* inputs of the change-detection checks: every analysis field varied
changeInputs ==
    analysisVariants(baseInput) \cup { withIdentity(baseInput, <<"a">>, Null, Empty, <<"p">>) }

\* inputs of the history checks
historyInputs ==
    { baseInput,
      [baseInput EXCEPT !.stage = "enacted"],
      withIdentity(baseInput, <<"a">>, Null, <<"y">>, <<"p">>) }

\* inputs of the frame checks: two events, and inputs that match them with
\* another analysis and with the title, the URL, the text and the dates
\* written differently
frameInputs ==
    { baseInput,
      [withIdentity(baseInput, <<"A">>, Null, <<"X">>, <<"q">>)
          EXCEPT !.stage = "enacted", !.effectiveDate = <<"e">>, !.publishedDate = Null,
                 !.requiredSolutions = Null],
      [withIdentity(baseInput, <<"A">>, Null, <<" ", "x">>, <<"p">>)
          EXCEPT !.chiliScore = 5, !.affectedProducts = Null],
      withIdentity(baseInput, <<"a">>, Null, <<"y">>, <<"p">>),
      [withIdentity(baseInput, <<"a">>, Null, <<"y">>, <<"P">>) EXCEPT !.summary = <<"t">>] }

sourceInputs ==
    { [ name |-> <<"n">>, url |-> <<"h">>, authorityType |-> "national",
        jurisdiction |-> <<"u">>, reliabilityTier |-> 5 ] }

patchBodies ==
    { [ stage |-> "passed" ],
      [ title |-> <<"b">>, chiliScore |-> 4 ],
      [ note |-> <<"z">> ] }

NoOp == [ op |-> "none", input |-> <<>>, result |-> "none", matched |-> 0, afterNew |-> FALSE ]
NoTx == [ owner |-> 0 ]
NoRequest == [ pc |-> "none" ]
NoSequence == [ laws |-> 0, law_updates |-> 0 ]

(***************************************************************************)
(* The store used directly: ensureSource, upsertEvent, the manual edit.    *)
(***************************************************************************)
\* the store after initializeSchema and the ensureSource call that precedes the
\* first upsertEvent in the pipeline and in every test
InitStore ==
    /\ clock = 0
    /\ sources = ensureSource(<<>>, CHOOSE source \in sourceInputs : TRUE, 0, 0).sources
    /\ events = <<>>
    /\ event_history = <<>>
    /\ crawl_runs = <<>>
    /\ nextId = 1
    /\ tx = NoTx
    /\ inv = <<>>
    /\ notifications = {}
    /\ lastOp = NoOp
    /\ laws = <<>>
    /\ law_updates = <<>>
    /\ sqlite_sequence = NoSequence
    /\ request = NoRequest

\* time passes
Tick ==
    /\ clock < MaxClock
    /\ clock' = clock + 1
    /\ UNCHANGED <<sources, events, event_history, crawl_runs, nextId, tx, inv, notifications, lastOp,
                   laws, law_updates, sqlite_sequence, request>>

\* a direct call of upsertEvent (autocommit)
UpsertCall(inputs) ==
    \E input \in inputs : \E ex \in existingChoices(events, input) :
        LET r == upsertEvent(sources, events, event_history, input, ex, nextId, clock)
        IN  /\ Len(r.events) <= MaxEvents
            /\ Len(r.event_history) <= MaxHistory
            /\ events' = r.events
            /\ event_history' = r.event_history
            /\ nextId' = IF r.result = "new" THEN nextId + 1 ELSE nextId
            /\ lastOp' = [ op |-> "upsert", input |-> input, result |-> r.result, matched |-> r.matched,
                           afterNew |-> lastOp.op = "upsert" /\ lastOp.result = "new" /\ lastOp.input = input ]
            /\ UNCHANGED <<clock, sources, crawl_runs, tx, inv, notifications,
                   laws, law_updates, sqlite_sequence, request>>

\* PATCH /api/events/:id
PatchCall ==
    \E id \in 1..nextId : \E body \in patchBodies :
        LET r == patchEvent(events, event_history, id, body, clock)
        IN  /\ Len(r.event_history) <= MaxHistory
            /\ events' = r.events
            /\ event_history' = r.event_history
            /\ lastOp' = [ op |-> "patch", input |-> body,
                           result |-> IF r.status = 200 THEN "ok" ELSE "refused", matched |-> id,
                           afterNew |-> FALSE ]
            /\ UNCHANGED <<clock, sources, crawl_runs, nextId, tx, inv, notifications,
                   laws, law_updates, sqlite_sequence, request>>

\* inputs of the law checks: two events of one law, an event of another
\* jurisdiction whose summary names a known law, and the same event with a
\* summary that names none
lawInputs ==
    { baseInput,
      [withIdentity(baseInput, <<"a">>, Null, <<"y">>, <<"q">>) EXCEPT
          !.publishedDate = Null, !.stage = "enacted", !.chiliScore = 5],
      [withIdentity(baseInput, <<"b">>, <<"c">>, <<"z">>, <<"p">>) EXCEPT !.summary = <<"D", "S", "A">>],
      withIdentity(baseInput, <<"b">>, <<"c">>, <<"z">>, <<"p">>) }

\* the tables the backfill rebuilds
lawTables == [ laws |-> laws, law_updates |-> law_updates, sqlite_sequence |-> sqlite_sequence ]

\* a call of backfillLawsFromEvents; statement failAt raises (disk full, the
\* database locked by another process), 0: none.  The call returns the numbers
\* of laws, of updates and of merged duplicates; afterNew tells that the call
\* before it was a backfill that returned.
BackfillCall ==
    /\ sqlite_sequence.law_updates + Len(events) <= MaxSequence
    /\ \E eventRows \in {eventRowsOf(sources, events)} :
       \E groups \in {groupsFrom(eventRows, 1, <<>>)} :
       \E stmts \in {statementsOf(groups, sqlite_sequence, clock)} :
       \E failAt \in 0..Len(stmts) :
       \E r \in {transaction(lawTables, stmts, failAt)} :
          /\ laws' = r.tables.laws
          /\ law_updates' = r.tables.law_updates
          /\ sqlite_sequence' = r.tables.sqlite_sequence
          /\ lastOp' = [ op |-> "backfill", input |-> <<>>, result |-> r.result, matched |-> 0,
                         afterNew |-> lastOp.op = "backfill" /\ lastOp.result = "returned",
                         value |-> [ laws |-> Len(groups), lawUpdates |-> Len(eventRows),
                                     mergedDuplicates |-> max(0, Len(eventRows) - Len(groups)) ] ]
    /\ UNCHANGED <<clock, sources, events, event_history, crawl_runs, nextId, tx, inv,
                   notifications, request>>

\* inputs of inferCanonicalLaw: titles with and without a known law, and
\* countries written in letters of [a-z0-9] and in letters outside it
inferInputs ==
    { [ title |-> title, summary |-> <<"s">>, content |-> Null,
        jurisdictionCountry |-> country, jurisdictionState |-> state ] :
      title \in { <<"a">>, <<"b", " ", "a">>, <<"D", "S", "A", " ", "a">> },
      country \in { <<"u">>, <<"x">>, <<"é">>, <<"ü">> },
      state \in { Null, <<"c">> } }

\* a call of inferCanonicalLaw; the call before it is kept beside it
InferCall ==
    \E input \in inferInputs :
        /\ lastOp' = [ op |-> "infer", input |-> input,
                       result |-> inferCanonicalLaw(input).lawKey,
                       matched |-> 0, afterNew |-> lastOp.op = "infer",
                       before |-> IF lastOp.op = "infer"
                                  THEN [ input |-> lastOp.input, result |-> lastOp.result ]
                                  ELSE [ input |-> input,
                                         result |-> inferCanonicalLaw(input).lawKey ] ]
        /\ UNCHANGED <<clock, sources, events, event_history, crawl_runs, nextId, tx, inv,
                       notifications, laws, law_updates, sqlite_sequence, request>>

\* calls of inferCanonicalLaw, one after the other
NextInfer == InferCall

SpecInfer == InitStore /\ [][NextInfer]_vars

\* upserts that update stored events from inputs written differently
NextFrame == Tick \/ UpsertCall(frameInputs)

SpecFrame == InitStore /\ [][NextFrame]_vars

\* events stored, and the laws rebuilt from them
NextLaws == Tick \/ UpsertCall(lawInputs) \/ BackfillCall

SpecLaws == InitStore /\ [][NextLaws]_vars

\* the dedup of upsertEvent
NextStore == Tick \/ UpsertCall(storeInputs)

SpecStore == InitStore /\ [][NextStore]_vars

\* the change detection of upsertEvent
NextChange == Tick \/ UpsertCall(changeInputs)

SpecChange == InitStore /\ [][NextChange]_vars

\* upserts and manual edits
NextHistory == Tick \/ UpsertCall(historyInputs) \/ PatchCall

SpecHistory == InitStore /\ [][NextHistory]_vars

(***************************************************************************)
(* The crawler.                                                            *)
(***************************************************************************)
\* the registry: one government page
sourceRegistry ==
    << [ name |-> <<"g">>, url |-> <<"h">>, type |-> "government_page",
         authorityType |-> "national", jurisdiction |-> <<"u">>,
         jurisdictionCountry |-> <<"u">>, jurisdictionState |-> Null,
         reliabilityTier |-> 5 ] >>

\* the microblog searches of the registry: one query
twitterSearchSources ==
    << [ name |-> <<"w">>, url |-> <<"k">>, type |-> "twitter_search",
         authorityType |-> "national", jurisdiction |-> <<"u">>,
         jurisdictionCountry |-> <<"u">>, jurisdictionState |-> Null,
         reliabilityTier |-> 3 ] >>

\* what a fetch of the source can come to: a network error, a timeout or a
\* non-2xx status ("error"), a body the type-specific crawler turns into
\* items ("ok"), and for a microblog search no X_BEARER_TOKEN ("no_token")
fetchKinds(source) ==
    IF source.type = "twitter_search" THEN {"error", "ok", "no_token"} ELSE {"error", "ok"}

\* the items the type-specific crawler builds from the body of the source: the
\* page itself (a news search is crawled as a page), the article a feed links
\* to (the same article for every feed), the tweet a microblog search finds
crawledFrom(source) ==
    IF source.type = "twitter_search"
    THEN << [ source |-> source, url |-> <<"y">>, title |-> <<"a">>, text |-> <<"q">> ] >>
    ELSE IF source.type = "rss_feed"
    THEN << [ source |-> source, url |-> <<"r">>, title |-> <<"a">>, text |-> <<"p">> ] >>
    ELSE << [ source |-> source, url |-> source.url, title |-> <<"a">>, text |-> <<"p">> ] >>

\* crawlSource without its catch block: a failed fetch rejects the promise
crawlSourceWithoutCatch(source, kind) ==
    IF source.type = "twitter_search" /\ kind = "no_token"
    THEN [ status |-> "fulfilled", value |-> <<>> ]
    ELSE IF kind = "error"
    THEN [ status |-> "rejected", value |-> <<>> ]
    ELSE [ status |-> "fulfilled", value |-> crawledFrom(source) ]

\* crawlSource: the settled promise; the catch turns every failure into []
crawlSource(source, kind) ==
    IF source.type = "twitter_search" /\ kind = "no_token"
    THEN [ status |-> "fulfilled", value |-> <<>> ]
    ELSE IF kind = "error"
    THEN [ status |-> "fulfilled", value |-> <<>> ]
    ELSE [ status |-> "fulfilled", value |-> crawledFrom(source) ]

\* the key of dedupeItems
itemKey(item) ==
    IF normalizeUrl(item.url) # Empty
    THEN <<toLowerCase(item.source.name), <<"url">>, normalizeUrl(item.url)>>
    ELSE <<toLowerCase(item.source.name), <<"text">>,
           hashText(IF item.text # Empty THEN item.text ELSE item.title)>>

RECURSIVE dedupeFrom(_, _, _)
dedupeFrom(items, i, kept) ==
    IF i > Len(items) THEN kept
    ELSE dedupeFrom(items, i + 1,
            IF \E j \in 1..Len(kept) : itemKey(kept[j]) = itemKey(items[i])
            THEN kept ELSE Append(kept, items[i]))

\* dedupeItems: the first item of every key, in order
dedupeItems(items) == dedupeFrom(items, 1, <<>>)

\* sources.filter(...)
RECURSIVE filterSources(_, _)
filterSources(srcs, twitter) ==
    IF srcs = <<>> THEN <<>>
    ELSE IF (Head(srcs).type = "twitter_search") = twitter
         THEN <<Head(srcs)>> \o filterSources(Tail(srcs), twitter)
         ELSE filterSources(Tail(srcs), twitter)

(***************************************************************************)
(* The microblog fetcher: fetchTwitterRecentSearchWithRetry.               *)
(***************************************************************************)
TWITTER_MAX_RETRIES == 4
TWITTER_BASE_BACKOFF_MS == 1500
TWITTER_MAX_BACKOFF_MS == 30000

isRetriableStatus(status) ==
    status = 429 \/ status = 408 \/ (status >= 500 /\ status <= 599)

\* Math.min(TWITTER_BASE_BACKOFF_MS * 2 ** (attempt - 1), TWITTER_MAX_BACKOFF_MS)
backoffMs(attempt) ==
    LET capped(a, b) == IF a < b THEN a ELSE b
    IN  capped(TWITTER_BASE_BACKOFF_MS * 2 ^ (attempt - 1), TWITTER_MAX_BACKOFF_MS)

\* the retry-after header in seconds (0: absent or no positive number)
retryAfterMs(retryAfter) == IF retryAfter > 0 THEN retryAfter * 1000 ELSE 0

\* getRateLimitDelayMs(...) ?? 0; the x-rate-limit-reset header in epoch
\* seconds (-1: absent or no number)
getRateLimitDelayMs(reset, now) ==
    IF reset = -1 THEN 0 ELSE max(reset * 1000 - now, 0)

\* what fetch comes to: a response with its status and headers, or an
\* exception (a network error, or the abort after TWITTER_TIMEOUT_MS)
httpResponse(status, retryAfter, reset) ==
    [ kind |-> "response", status |-> status, retryAfter |-> retryAfter, reset |-> reset ]

fetchFailure == [ kind |-> "failure", status |-> 0, retryAfter |-> 0, reset |-> -1 ]

responses ==
    { httpResponse(200, 0, -1), httpResponse(400, 0, -1), httpResponse(401, 0, -1),
      httpResponse(403, 0, -1), httpResponse(408, 0, -1), httpResponse(429, 0, -1),
      httpResponse(429, 60, -1), httpResponse(429, 0, 2), httpResponse(503, 0, -1),
      fetchFailure }

\* the call of fetchTwitterRecentSearchWithRetry, at its first fetch
newRequest == [ pc |-> "fetch", attempt |-> 1, statuses |-> <<>>, waits |-> <<>> ]

\* one turn of the loop from the settling of fetch to the next await, the
\* return or the final throw.  The throw for a response that is not to be
\* retried sits inside the try block, so the catch block of the turn takes it.
fetchAttempt(req, response, now) ==
    LET seen == [req EXCEPT !.statuses = Append(@, response.status)]
        catch == IF req.attempt = TWITTER_MAX_RETRIES
                 THEN [seen EXCEPT !.pc = "thrown"]
                 ELSE [seen EXCEPT !.pc = "sleep", !.waits = Append(@, backoffMs(req.attempt))]
    IN  IF response.kind = "failure" THEN catch
        ELSE IF response.status >= 200 /\ response.status <= 299
        THEN [seen EXCEPT !.pc = "returned"]
        ELSE IF ~isRetriableStatus(response.status) \/ req.attempt = TWITTER_MAX_RETRIES
        THEN catch
        ELSE [seen EXCEPT !.pc = "sleep",
                          !.waits = Append(@, max(backoffMs(req.attempt),
                                                  max(retryAfterMs(response.retryAfter),
                                                      getRateLimitDelayMs(response.reset, now))))]

\* crawlTwitterSources calls the fetcher for a query
SearchStart ==
    /\ request.pc \in {"none", "returned", "thrown"}
    /\ request' = newRequest
    /\ UNCHANGED <<clock, sources, events, event_history, crawl_runs, nextId, tx, inv,
                   notifications, lastOp, laws, law_updates, sqlite_sequence>>

\* the fetch of the attempt settles
SearchRespond ==
    /\ request.pc = "fetch"
    /\ \E response \in responses : request' = fetchAttempt(request, response, clock)
    /\ UNCHANGED <<clock, sources, events, event_history, crawl_runs, nextId, tx, inv,
                   notifications, lastOp, laws, law_updates, sqlite_sequence>>

\* await sleep(waitMs) is over: the next turn of the loop
SearchBackoffDone ==
    /\ request.pc = "sleep"
    /\ request' = [request EXCEPT !.pc = "fetch", !.attempt = @ + 1]
    /\ UNCHANGED <<clock, sources, events, event_history, crawl_runs, nextId, tx, inv,
                   notifications, lastOp, laws, law_updates, sqlite_sequence>>

(***************************************************************************)
(* The analyzer.                                                           *)
(***************************************************************************)
\* a value of the parsed reply where a score is read: a number in tenths, a
\* number that is not finite (NaN, Infinity), undefined, null or a string
Num(t) == [ type |-> "number", finite |-> TRUE, tenths |-> t, text |-> <<>> ]
NaN == [ type |-> "number", finite |-> FALSE, tenths |-> 0, text |-> <<>> ]
Undefined == [ type |-> "undefined", finite |-> FALSE, tenths |-> 0, text |-> <<>> ]
JsNull == [ type |-> "null", finite |-> FALSE, tenths |-> 0, text |-> <<>> ]
Str(s) == [ type |-> "string", finite |-> FALSE, tenths |-> 0, text |-> s ]

digits == <<"1", "2", "3", "4", "5", "6", "7", "8", "9">>

isDigit(c) == c = "0" \/ \E n \in 1..Len(digits) : digits[n] = c

digit(c) == IF c = "0" THEN 0 ELSE CHOOSE n \in 1..Len(digits) : digits[n] = c

\* Number(value) of a value that is no number: NaN of undefined, 0 of null and
\* of the empty string, the number a string of the forms d and d.d spells,
\* NaN of any other string
Number(value) ==
    IF value.type = "undefined" THEN NaN
    ELSE IF value.type = "null" THEN Num(0)
    ELSE LET text == trim(value.text)
         IN  IF text = <<>> THEN Num(0)
             ELSE IF Len(text) = 1 /\ isDigit(text[1]) THEN Num(10 * digit(text[1]))
             ELSE IF /\ Len(text) = 3 /\ isDigit(text[1]) /\ text[2] = "."
                     /\ isDigit(text[3])
             THEN Num(10 * digit(text[1]) + digit(text[3]))
             ELSE NaN

\* Math.round: to the nearest integer, halves upwards
round(t) == (t + 5) \div 10

\* clampScore with Math.floor in the place of Math.round
clampScoreFlooring(value) ==
    LET num == IF value.type = "number" THEN value ELSE Number(value)
    IN  IF ~num.finite THEN 3
        ELSE LET r == num.tenths \div 10
             IN  IF r < 1 THEN 1 ELSE IF r > 5 THEN 5 ELSE r

clampScore(value) ==
    LET num == IF value.type = "number" THEN value ELSE Number(value)
    IN  IF ~num.finite THEN 3
        ELSE LET r == round(num.tenths)
             IN  IF r < 1 THEN 1 ELSE IF r > 5 THEN 5 ELSE r

validStages ==
    { "proposed", "introduced", "committee_review", "passed", "enacted",
      "effective", "amended", "withdrawn", "rejected" }

validAgeBrackets == { "13-15", "16-18", "both" }

falsy(v) == v = Null \/ v = Empty

slice(s, n) == IF Len(s) <= n THEN s ELSE SubSeq(s, 1, n)

NullAnalysis == [ isNull |-> TRUE, relevant |-> FALSE ]

\* the AnalysisResult built from a parsed reply
normalizedAnalysis(item, parsed) ==
    [ isNull |-> FALSE,
      relevant |-> TRUE,
      title |-> slice(IF falsy(parsed.title) THEN item.title ELSE parsed.title, 500),
      jurisdiction |-> IF falsy(parsed.jurisdiction)
                       THEN item.source.jurisdictionCountry ELSE parsed.jurisdiction,
      jurisdictionState |-> IF falsy(parsed.jurisdictionState)
                            THEN item.source.jurisdictionState ELSE parsed.jurisdictionState,
      stage |-> IF parsed.stage \in validStages THEN parsed.stage ELSE "proposed",
      ageBracket |-> IF parsed.ageBracket \in validAgeBrackets THEN parsed.ageBracket ELSE "both",
      affectedProducts |-> IF parsed.affectedProducts = Null
                           THEN <<"F", "I">> ELSE parsed.affectedProducts,
      summary |-> slice(IF falsy(parsed.summary) THEN <<"N">> ELSE parsed.summary, 2000),
      businessImpact |-> slice(orEmpty(parsed.businessImpact), 2000),
      requiredSolutions |-> IF parsed.requiredSolutions = Null
                            THEN Empty ELSE parsed.requiredSolutions,
      competitorResponses |-> IF parsed.competitorResponses = Null
                              THEN Empty ELSE parsed.competitorResponses,
      impactScore |-> clampScore(parsed.impactScore),
      likelihoodScore |-> clampScore(parsed.likelihoodScore),
      confidenceScore |-> clampScore(parsed.confidenceScore),
      chiliScore |-> clampScore(parsed.chiliScore),
      effectiveDate |-> parsed.effectiveDate,
      publishedDate |-> parsed.publishedDate ]

\* analyzeItem without the test of parsed.relevant
analyzeItemIgnoringRelevant(item, reply) ==
    IF reply.kind = "error" THEN NullAnalysis
    ELSE IF reply.kind = "unparsable" THEN NullAnalysis
    ELSE normalizedAnalysis(item, reply.parsed)

\* analyzeItem: null when the call throws or the reply does not parse,
\* {relevant: false} when the reply says so, the normalized analysis otherwise
analyzeItem(item, reply) ==
    IF reply.kind = "error" THEN NullAnalysis
    ELSE IF reply.kind = "unparsable" THEN NullAnalysis
    ELSE IF reply.parsed.relevant = "false"
    THEN [ isNull |-> FALSE, relevant |-> FALSE ]
    ELSE normalizedAnalysis(item, reply.parsed)

\* the reply {"relevant": false}: every other field is undefined
irrelevantReply ==
    [ relevant |-> "false", title |-> Null, jurisdiction |-> Null, jurisdictionState |-> Null,
      stage |-> "undefined", ageBracket |-> "undefined", affectedProducts |-> Null,
      summary |-> Null, businessImpact |-> Null, requiredSolutions |-> Null,
      competitorResponses |-> Null, impactScore |-> NaN, likelihoodScore |-> NaN,
      confidenceScore |-> NaN, chiliScore |-> NaN,
      effectiveDate |-> Null, publishedDate |-> Null ]

\* a reply that finds the item relevant
relevantReply ==
    [ relevant |-> "true", title |-> Null, jurisdiction |-> Null, jurisdictionState |-> Null,
      stage |-> "introduced", ageBracket |-> "13-15", affectedProducts |-> Null,
      summary |-> <<"s">>, businessImpact |-> <<"m">>, requiredSolutions |-> Null,
      competitorResponses |-> Null, impactScore |-> Num(40), likelihoodScore |-> Num(26),
      confidenceScore |-> NaN, chiliScore |-> Num(45),
      effectiveDate |-> Null, publishedDate |-> <<"d">> ]

\* what the model call can come to for an item: a timeout, a non-2xx status or
\* an exception ("error"), text that is no JSON object ("unparsable"), or JSON
replies ==
    { [ kind |-> "error" ],
      [ kind |-> "unparsable" ],
      [ kind |-> "json", parsed |-> irrelevantReply ],
      [ kind |-> "json", parsed |-> relevantReply ] }

(***************************************************************************)
(* runPipeline: the persist loop.                                          *)
(***************************************************************************)
\* buildRegulationKey of pipeline.ts
pipelineRegulationKey(country, state, title) ==
    << normalizeForHash(IF falsy(country) THEN <<"u", "n", "k", "n", "o", "w", "n">> ELSE country),
       normalizeForHash(IF falsy(state) THEN Empty ELSE state),
       normalizeForHash(IF falsy(title) THEN <<"u", "n", "t", "i", "t", "l", "e", "d">> ELSE title) >>

buildDeduplicationKey(country, state, title, sourceUrl, rawText) ==
    << pipelineRegulationKey(country, state, title),
       IF normalizeUrl(sourceUrl) # Empty
       THEN normalizeUrl(sourceUrl)
       ELSE <<"text:">> \o hashText(IF falsy(rawText) THEN title ELSE rawText) >>

\* the UpsertEventInput the loop builds
pipelineInput(item, analysis, sourceId) ==
    [ title |-> analysis.title,
      jurisdictionCountry |-> analysis.jurisdiction,
      jurisdictionState |-> analysis.jurisdictionState,
      stage |-> analysis.stage,
      isUnder16Applicable |-> TRUE,
      ageBracket |-> analysis.ageBracket,
      impactScore |-> analysis.impactScore,
      likelihoodScore |-> analysis.likelihoodScore,
      confidenceScore |-> analysis.confidenceScore,
      chiliScore |-> analysis.chiliScore,
      summary |-> analysis.summary,
      businessImpact |-> analysis.businessImpact,
      requiredSolutions |-> analysis.requiredSolutions,
      affectedProducts |-> analysis.affectedProducts,
      competitorResponses |-> analysis.competitorResponses,
      rawText |-> slice(item.text, 5000),
      sourceUrlLink |-> item.url,
      effectiveDate |-> analysis.effectiveDate,
      publishedDate |-> analysis.publishedDate,
      sourceId |-> sourceId ]

\* values a reply can hold in the place of a score
scoreValues ==
    { Num(-15), Num(4), Num(14), Num(15), Num(24), Num(25), Num(44), Num(45), Num(99),
      NaN, Undefined, JsNull, Str(<<"x">>), Str(<<"4", ".", "5">>) }

scoreFields == { "impactScore", "likelihoodScore", "confidenceScore", "chiliScore" }

\* analyzeItem of an item of the registry's page on a reply that finds it
\* relevant, and the input the persist loop builds from the analysis
AnalyzeCall ==
    \E impact, likelihood \in scoreValues :
        \E confidence \in { Num(99), Str(<<"4", ".", "5">>) }, chili \in { Undefined, Num(25) } :
            LET item == crawledFrom(sourceRegistry[1])[1]
                parsed == [relevantReply EXCEPT !.impactScore = impact,
                                                !.likelihoodScore = likelihood,
                                                !.confidenceScore = confidence,
                                                !.chiliScore = chili]
            IN  /\ lastOp' = [ op |-> "analyze", input |-> parsed,
                               result |-> pipelineInput(
                                   item, analyzeItem(item, [ kind |-> "json",
                                                             parsed |-> parsed ]), 1),
                               matched |-> 0, afterNew |-> FALSE ]
                /\ UNCHANGED <<clock, sources, events, event_history, crawl_runs, nextId,
                               tx, inv, notifications, laws, law_updates, sqlite_sequence,
                               request>>

\* replies analyzed one after the other
NextAnalyze == AnalyzeCall

SpecAnalyze == InitStore /\ [][NextAnalyze]_vars

\* the source ensureSource is called with
sourceOf(item) ==
    [ name |-> item.source.name, url |-> item.source.url,
      authorityType |-> item.source.authorityType,
      jurisdiction |-> item.source.jurisdiction,
      reliabilityTier |-> item.source.reliabilityTier ]

\* errors.push(`Failed to persist "${analysis.title}": ${msg}`)
persistError(analysis) == [ failed |-> analysis.title ]

\* the turn of the loop with a catch block that records nothing
persistItemSwallowingError(w, t, entry, sx, ex, id, now) ==
    LET s == ensureSource(w.sources, sourceOf(entry.item), sx, now)
        input == pipelineInput(entry.item, entry.analysis, s.id)
        key == buildDeduplicationKey(input.jurisdictionCountry, input.jurisdictionState,
                                     input.title, input.sourceUrlLink, input.rawText)
        u == upsertEvent(s.sources, w.events, w.event_history, input, ex, id, now)
    IN  IF ~s.ok
        THEN [ w |-> w, t |-> t, result |-> "raised" ]
        ELSE IF key \in t.seen
        THEN [ w |-> [w EXCEPT !.sources = s.sources],
               t |-> [t EXCEPT !.itemsDuplicate = @ + 1], result |-> "seen" ]
        ELSE [ w |-> [ sources |-> s.sources, events |-> u.events,
                       event_history |-> u.event_history ],
               t |-> [t EXCEPT !.seen = @ \cup {key},
                               !.itemsNew = IF u.result = "new" THEN @ + 1 ELSE @,
                               !.itemsUpdated = IF u.result = "updated" THEN @ + 1 ELSE @,
                               !.itemsDuplicate = IF u.result = "duplicate" THEN @ + 1 ELSE @],
               result |-> u.result ]

\* the turn of the loop without the test of seenDeduplicationKeys
persistItemWithoutSeenCheck(w, t, entry, sx, ex, id, now) ==
    LET s == ensureSource(w.sources, sourceOf(entry.item), sx, now)
        input == pipelineInput(entry.item, entry.analysis, s.id)
        key == buildDeduplicationKey(input.jurisdictionCountry, input.jurisdictionState,
                                     input.title, input.sourceUrlLink, input.rawText)
        u == upsertEvent(s.sources, w.events, w.event_history, input, ex, id, now)
    IN  IF ~s.ok
        THEN [ w |-> w, t |-> [t EXCEPT !.errors = Append(@, persistError(entry.analysis))],
               result |-> "raised" ]
        ELSE [ w |-> [ sources |-> s.sources, events |-> u.events,
                       event_history |-> u.event_history ],
               t |-> [t EXCEPT !.seen = @ \cup {key},
                               !.itemsNew = IF u.result = "new" THEN @ + 1 ELSE @,
                               !.itemsUpdated = IF u.result = "updated" THEN @ + 1 ELSE @,
                               !.itemsDuplicate = IF u.result = "duplicate" THEN @ + 1 ELSE @,
                               !.errors = IF u.result = "raised"
                                          THEN Append(@, persistError(entry.analysis)) ELSE @],
               result |-> u.result ]

\* one turn of the loop on the working tables w and the tallies t; sx and ex
\* are the rows the two SELECTs returned, id the fresh UUID.  A statement that
\* throws is undone alone, and the catch block of the turn records the error.
persistItem(w, t, entry, sx, ex, id, now) ==
    LET s == ensureSource(w.sources, sourceOf(entry.item), sx, now)
        input == pipelineInput(entry.item, entry.analysis, s.id)
        key == buildDeduplicationKey(input.jurisdictionCountry, input.jurisdictionState,
                                     input.title, input.sourceUrlLink, input.rawText)
        u == upsertEvent(s.sources, w.events, w.event_history, input, ex, id, now)
    IN  IF ~s.ok
        THEN [ w |-> w, t |-> [t EXCEPT !.errors = Append(@, persistError(entry.analysis))],
               result |-> "raised" ]
        ELSE IF key \in t.seen
        THEN [ w |-> [w EXCEPT !.sources = s.sources],
               t |-> [t EXCEPT !.itemsDuplicate = @ + 1], result |-> "seen" ]
        ELSE [ w |-> [ sources |-> s.sources, events |-> u.events,
                       event_history |-> u.event_history ],
               t |-> [t EXCEPT !.seen = @ \cup {key},
                               !.itemsNew = IF u.result = "new" THEN @ + 1 ELSE @,
                               !.itemsUpdated = IF u.result = "updated" THEN @ + 1 ELSE @,
                               !.itemsDuplicate = IF u.result = "duplicate" THEN @ + 1 ELSE @,
                               !.errors = IF u.result = "raised"
                                          THEN Append(@, persistError(entry.analysis)) ELSE @],
               result |-> u.result ]

(***************************************************************************)
(* runPipeline: one invocation, from one await to the next.                *)
(***************************************************************************)
Idle == [ pc |-> "idle" ]

\* options ?? defaults
defaultOptions ==
    [ sources |-> sourceRegistry \o twitterSearchSources,
      crawlConcurrency |-> 5,
      analyzeConcurrency |-> 12,
      throwsAt |-> "none" ]

\* throwsAt names the call of options.onProgress at which the caller's callback
\* throws: "start", "crawl", "crawl_progress" (a source crawled), "crawl_done",
\* "analyze", "analyze_progress" (an item analysed), "analyze_done", "persist",
\* "done", or "none" for a callback that never throws
noTallies ==
    [ itemsNew |-> 0, itemsUpdated |-> 0, itemsDuplicate |-> 0, errors |-> <<>>, seen |-> {} ]

\* the PipelineResult of the catch block
failureResult(runId, msg) ==
    [ runId |-> runId, itemsCrawled |-> 0, itemsAnalyzed |-> 0, itemsRelevant |-> 0,
      itemsNew |-> 0, itemsUpdated |-> 0, itemsDuplicate |-> 0, errors |-> <<msg>> ]

\* the outcome of a step of an invocation: its next state, the crawl_runs
\* table, and how the promise settled if it did
continues(rec, runs) ==
    [ inv |-> rec, crawl_runs |-> runs, settled |-> "pending", value |-> <<>> ]

\* the callback threw before the try block: the promise rejects
rejects(rec, runs) ==
    [ inv |-> Idle, crawl_runs |-> runs, settled |-> "rejected", value |-> <<>> ]

resolves(rec, runs, result) ==
    [ inv |-> Idle, crawl_runs |-> runs, settled |-> "resolved", value |-> result ]

\* the catch block: failCrawlRun, and the failure result is returned
catchBlock(rec, runs, msg, now) ==
    resolves(rec, failCrawlRun(runs, rec.runId, msg, now), failureResult(rec.runId, msg))

min(a, b) == IF a < b THEN a ELSE b

\* the batches taken from all the sources, the microblog searches among them
allSourcesInBatches(rec) == rec.sources

nonTwitterSources(rec) == filterSources(rec.sources, FALSE)

twitterSources(rec) == filterSources(rec.sources, TRUE)

\* crawlAllSources from the top of a loop turn to its next await, or to its
\* return of dedupeItems(allItems)
crawlNext(rec) ==
    IF rec.i < Len(nonTwitterSources(rec))
    THEN [rec EXCEPT !.pc = "crawl",
                     !.settled = [ j \in 1..min(rec.crawlConcurrency,
                                                Len(nonTwitterSources(rec)) - rec.i) |-> "pending" ]]
    ELSE IF rec.tw < Len(twitterSources(rec))
    THEN [rec EXCEPT !.pc = "twitter", !.settled = <<"pending">>]
    ELSE [rec EXCEPT !.pc = "crawl_end", !.settled = <<>>, !.items = dedupeItems(rec.allItems)]

\* analyzeItems from the top of a loop turn to its next await, or to its return
analyzeNext(rec) ==
    IF rec.i < Len(rec.items)
    THEN [rec EXCEPT !.pc = "analyze",
                     !.settled = [ j \in 1..min(rec.analyzeConcurrency, Len(rec.items) - rec.i)
                                     |-> [ kind |-> "pending" ] ]]
    ELSE [rec EXCEPT !.pc = "analyze_end", !.settled = <<>>]

\* runPipeline up to its first await
runPipelineStart(origin, options, runs, now) ==
    LET rec == [ pc |-> "start", origin |-> origin, throwsAt |-> options.throwsAt,
                 sources |-> options.sources,
                 crawlConcurrency |-> options.crawlConcurrency,
                 analyzeConcurrency |-> options.analyzeConcurrency,
                 runId |-> Len(runs) + 1,
                 i |-> 0, tw |-> 0, settled |-> <<>>, allItems |-> <<>>, completed |-> 0,
                 items |-> <<>>, results |-> <<>>, p |-> 1, t |-> noTallies ]
        started == startCrawlRun(runs, now)
    IN  IF rec.throwsAt = "start" THEN rejects(rec, started)
        ELSE IF rec.throwsAt = "crawl" THEN catchBlock(rec, started, "crawl", now)
        ELSE continues(crawlNext(rec), started)

\* the batch of sources in flight
crawlBatch(rec) ==
    SubSeq(nonTwitterSources(rec), rec.i + 1, rec.i + Len(rec.settled))

\* allItems.push(...result.value) for the fulfilled results of the batch
RECURSIVE pushFulfilled(_, _, _)
pushFulfilled(batch, kinds, j) ==
    IF j > Len(batch) THEN <<>>
    ELSE LET result == crawlSource(batch[j], kinds[j])
         IN  (IF result.status = "fulfilled" THEN result.value ELSE <<>>)
                 \o pushFulfilled(batch, kinds, j + 1)

\* after Promise.allSettled of a batch of sources
crawlBatchDone(rec, runs, now) ==
    IF rec.throwsAt = "crawl_progress"
    THEN catchBlock(rec, runs, "crawl_progress", now)
    ELSE continues(
            crawlNext([rec EXCEPT !.allItems = @ \o pushFulfilled(crawlBatch(rec), rec.settled, 1),
                                  !.completed = @ + Len(rec.settled),
                                  !.i = @ + rec.crawlConcurrency]),
            runs)

\* after await crawlSource(source) of a microblog search
twitterDone(rec, runs, now) ==
    LET result == crawlSource(twitterSources(rec)[rec.tw + 1], rec.settled[1])
        pushed == [rec EXCEPT !.allItems = @ \o result.value, !.completed = @ + 1]
    IN  IF result.status # "fulfilled"
        THEN catchBlock(rec, runs, "crawl_failed", now)
        ELSE IF rec.throwsAt = "crawl_progress"
        THEN catchBlock(rec, runs, "crawl_progress", now)
        ELSE IF rec.tw < Len(twitterSources(rec)) - 1
        THEN continues([pushed EXCEPT !.pc = "sleep", !.settled = <<>>], runs)
        ELSE continues(crawlNext([pushed EXCEPT !.tw = @ + 1]), runs)

\* after await crawlAllSources(...)
crawlDone(rec, runs, now) ==
    IF rec.throwsAt = "crawl_done" THEN catchBlock(rec, runs, "crawl_done", now)
    ELSE IF Len(rec.items) = 0
    THEN resolves(rec,
            completeCrawlRun(runs, rec.runId,
                             [ itemsFound |-> 0, itemsNew |-> 0, itemsUpdated |-> 0 ], now),
            [ runId |-> rec.runId, itemsCrawled |-> 0, itemsAnalyzed |-> 0, itemsRelevant |-> 0,
              itemsNew |-> 0, itemsUpdated |-> 0, itemsDuplicate |-> 0,
              errors |-> <<"No items crawled from any source">> ])
    ELSE IF rec.throwsAt = "analyze" THEN catchBlock(rec, runs, "analyze", now)
    ELSE continues(analyzeNext([rec EXCEPT !.i = 0, !.allItems = <<>>]), runs)

\* the batch of items in flight
analyzeBatch(rec) == SubSeq(rec.items, rec.i + 1, rec.i + Len(rec.settled))

\* results.push({item, analysis}) for the fulfilled, relevant analyses
RECURSIVE pushRelevant(_, _, _)
pushRelevant(batch, settled, j) ==
    IF j > Len(batch) THEN <<>>
    ELSE LET value == analyzeItem(batch[j], settled[j])
         IN  (IF ~value.isNull /\ value.relevant
              THEN << [ item |-> batch[j], analysis |-> value ] >> ELSE <<>>)
                 \o pushRelevant(batch, settled, j + 1)

\* after Promise.allSettled of a batch of analyses
analyzeBatchDone(rec, runs, now) ==
    IF rec.throwsAt = "analyze_progress"
    THEN catchBlock(rec, runs, "analyze_progress", now)
    ELSE continues(
            analyzeNext([rec EXCEPT !.results = @ \o pushRelevant(analyzeBatch(rec), rec.settled, 1),
                                    !.completed = @ + Len(rec.settled),
                                    !.i = @ + rec.analyzeConcurrency]),
            runs)

\* after await analyzeItems(...), up to the start of the transaction
analyzeDone(rec, runs, now) ==
    IF rec.throwsAt = "analyze_done" THEN catchBlock(rec, runs, "analyze_done", now)
    ELSE IF rec.throwsAt = "persist" THEN catchBlock(rec, runs, "persist", now)
    ELSE continues([rec EXCEPT !.pc = "persist", !.p = 1, !.t = noTallies], runs)

\* the loop outside a transaction: every statement commits as it runs
autocommitWrite(committed, written) ==
    [ committed |-> written, working |-> written ]

\* db.transaction: what the statements of the transaction function write is
\* kept in the working copy; the committed tables show it at COMMIT only
transactionWrite(committed, written) ==
    [ committed |-> committed, working |-> written ]

\* persistDone with a result that leaves the duplicates out
persistDoneWithoutDuplicates(rec, runs, now) ==
    LET completed == completeCrawlRun(runs, rec.runId,
                        [ itemsFound |-> Len(rec.items), itemsNew |-> rec.t.itemsNew,
                          itemsUpdated |-> rec.t.itemsUpdated ], now)
    IN  IF rec.throwsAt = "done" THEN continues([rec EXCEPT !.pc = "done"], completed)
        ELSE resolves(rec, completed,
                [ runId |-> rec.runId, itemsCrawled |-> Len(rec.items),
                  itemsAnalyzed |-> Len(rec.results) + (Len(rec.items) - Len(rec.results)),
                  itemsRelevant |-> Len(rec.results),
                  itemsNew |-> rec.t.itemsNew, itemsUpdated |-> rec.t.itemsUpdated,
                  itemsDuplicate |-> 0, errors |-> rec.t.errors ])

\* after persistTransaction(): completeCrawlRun, the last callback, the return.
\* The UPDATE of completeCrawlRun is committed on its own, so the row it wrote
\* can be read before a callback that throws hands over to the catch block
persistDone(rec, runs, now) ==
    LET completed == completeCrawlRun(runs, rec.runId,
                        [ itemsFound |-> Len(rec.items), itemsNew |-> rec.t.itemsNew,
                          itemsUpdated |-> rec.t.itemsUpdated ], now)
    IN  IF rec.throwsAt = "done" THEN continues([rec EXCEPT !.pc = "done"], completed)
        ELSE resolves(rec, completed,
                [ runId |-> rec.runId, itemsCrawled |-> Len(rec.items),
                  itemsAnalyzed |-> Len(rec.results) + (Len(rec.items) - Len(rec.results)),
                  itemsRelevant |-> Len(rec.results),
                  itemsNew |-> rec.t.itemsNew, itemsUpdated |-> rec.t.itemsUpdated,
                  itemsDuplicate |-> rec.t.itemsDuplicate, errors |-> rec.t.errors ])

\* the callback of the stage "done" throws: the catch block
doneCallback(rec, runs, now) == catchBlock(rec, runs, "done", now)

(***************************************************************************)
(* The coordinator: the trigger, the CLI, and the steps of the runs.       *)
(***************************************************************************)
MaxInFlight == 2
MaxRuns == 2

NotificationLimit == 20

\* a fresh database after initializeSchema
InitPipeline ==
    /\ clock = 0
    /\ sources = <<>>
    /\ events = <<>>
    /\ event_history = <<>>
    /\ crawl_runs = <<>>
    /\ nextId = 1
    /\ tx = NoTx
    /\ inv = [ k \in 1..MaxInFlight |-> Idle ]
    /\ notifications = {}
    /\ lastOp = NoOp
    /\ laws = <<>>
    /\ law_updates = <<>>
    /\ sqlite_sequence = NoSequence
    /\ request = NoRequest

committedStore == [ sources |-> sources, events |-> events, event_history |-> event_history ]

RECURSIVE subsetsOfSize(_, _)
\* the subsets of S that have k elements
subsetsOfSize(S, k) ==
    IF k = 0 THEN {{}}
    ELSE UNION { { {x} \cup T : T \in subsetsOfSize({ y \in S : y > x }, k - 1) } : x \in S }

\* SELECT id ... WHERE chili_score >= 4 ORDER BY created_at DESC LIMIT 20: the
\* sets of rows the query may return (rows of one created_at come in any order)
highRiskNew(evs) ==
    LET high == { i \in 1..Len(evs) : evs[i].chili_score >= 4 }
        cut == Cardinality(high) - min(NotificationLimit, Cardinality(high))
    IN  { high \ left : left \in { c \in subsetsOfSize(high, cut) :
                                     \A a \in high \ c : \A b \in c :
                                         evs[a].created_at >= evs[b].created_at } }

\* the loop over the rows of the query: INSERT INTO notifications for an event
\* that has no row yet
seedNotifications(rows, evs, chosen) ==
    rows \cup { [ event_id |-> evs[i].id,
                  severity |-> IF evs[i].chili_score >= 5 THEN "critical" ELSE "warning" ] :
                i \in { c \in chosen : \A row \in rows : row.event_id # evs[c].id } }

\* a step of invocation k came to the outcome o: the tables and the invocation
\* are updated, and when the promise settled the caller's continuation runs;
\* for the trigger that is the seeding of the notifications.  call is what the
\* caller has seen of its last call until then.
Settle(k, origin, throwsAt, runId, o, evs, call) ==
    /\ inv' = [inv EXCEPT ![k] = o.inv]
    /\ crawl_runs' = o.crawl_runs
    /\ UNCHANGED <<laws, law_updates, sqlite_sequence, request>>
    /\ IF o.settled = "pending"
       THEN lastOp' = call /\ UNCHANGED notifications
       ELSE /\ lastOp' = [ op |-> "runPipeline",
                           input |-> [ origin |-> origin, throwsAt |-> throwsAt ],
                           result |-> o.settled, matched |-> runId, afterNew |-> FALSE,
                           value |-> o.value ]
            /\ IF origin = "http" /\ o.settled = "resolved"
               THEN \E chosen \in highRiskNew(evs) :
                       notifications' = seedNotifications(notifications, evs, chosen)
               ELSE UNCHANGED notifications

Step(k, o) == Settle(k, inv[k].origin, inv[k].throwsAt, inv[k].runId, o, events, lastOp)

idleSlots == { k \in 1..MaxInFlight : inv[k].pc = "idle" }

\* a call of runPipeline; the INSERT of startCrawlRun waits while another
\* connection holds the write lock
Begin(origin, options, call) ==
    /\ tx = NoTx
    /\ Len(crawl_runs) < MaxRuns
    /\ idleSlots # {}
    /\ Settle(CHOOSE k \in idleSlots : \A j \in idleSlots : k <= j,
              origin, options.throwsAt, Len(crawl_runs) + 1,
              runPipelineStart(origin, options, crawl_runs, clock), events, call)

\* the trigger without the test of MINIMAX_API_KEY
TriggerWithoutKeyCheck(options) ==
    \E apiKey \in BOOLEAN :
        LET lastRun == getLatestCrawlRun(crawl_runs)
            response(status, runId) ==
                [ op |-> "trigger", input |-> apiKey, result |-> status, matched |-> runId,
                  afterNew |-> FALSE,
                  n |-> IF lastOp.op = "trigger" THEN 1 - lastOp.n ELSE 0 ]
        IN  IF lastRun.status = "running"
            THEN /\ lastOp' = response(409, lastRun.id)
                 /\ UNCHANGED <<clock, sources, events, event_history, crawl_runs, nextId, tx,
                                inv, notifications, laws, law_updates, sqlite_sequence, request>>
            ELSE /\ Begin("http", options, response(200, 0))
                 /\ UNCHANGED <<clock, sources, events, event_history, nextId, tx>>

\* POST /api/crawl; apiKey: MINIMAX_API_KEY is set in the server's environment.
\* The response is recorded with a bit n that tells it from the one before.
\* options are the defaults of runPipeline, the registry among them.
TriggerOf(options) ==
    \E apiKey \in BOOLEAN :
        LET lastRun == getLatestCrawlRun(crawl_runs)
            response(status, runId) ==
                [ op |-> "trigger", input |-> apiKey, result |-> status, matched |-> runId,
                  afterNew |-> FALSE,
                  n |-> IF lastOp.op = "trigger" THEN 1 - lastOp.n ELSE 0 ]
        IN  IF ~apiKey
            THEN /\ lastOp' = response(500, 0)
                 /\ UNCHANGED <<clock, sources, events, event_history, crawl_runs, nextId, tx,
                                inv, notifications,
                   laws, law_updates, sqlite_sequence, request>>
            ELSE IF lastRun.status = "running"
            THEN /\ lastOp' = response(409, lastRun.id)
                 /\ UNCHANGED <<clock, sources, events, event_history, crawl_runs, nextId, tx,
                                inv, notifications,
                   laws, law_updates, sqlite_sequence, request>>
            ELSE /\ Begin("http", options, response(200, 0))
                 /\ UNCHANGED <<clock, sources, events, event_history, nextId, tx>>

\* the trigger of a server whose registry is sourceRegistry
Trigger == TriggerOf(defaultOptions)

\* npm run crawl, with MINIMAX_API_KEY set (without it main exits at once)
CliMain ==
    /\ Begin("cli", defaultOptions, lastOp)
    /\ UNCHANGED <<clock, sources, events, event_history, nextId, tx>>

\* a call of runPipeline by other code, with options of its own
DirectCall(optionSet) ==
    \E options \in optionSet :
        /\ Begin("direct", options, lastOp)
        /\ UNCHANGED <<clock, sources, events, event_history, nextId, tx>>

\* invocation k may take a step: no other connection holds the write lock
mayStep(k) == inv[k].pc # "idle" /\ tx.owner \in {0, k}

\* the fetch of a source in flight settles
FetchSettle(kinds) ==
    \E k \in 1..MaxInFlight :
        /\ mayStep(k)
        /\ inv[k].pc \in {"crawl", "twitter"}
        /\ \E j \in DOMAIN inv[k].settled :
              /\ inv[k].settled[j] = "pending"
              /\ LET source == IF inv[k].pc = "crawl" THEN crawlBatch(inv[k])[j]
                               ELSE twitterSources(inv[k])[inv[k].tw + 1]
                 IN  \E kind \in fetchKinds(source) \cap kinds :
                        inv' = [inv EXCEPT ![k].settled[j] = kind]
        /\ UNCHANGED <<clock, sources, events, event_history, crawl_runs, nextId, tx,
                       notifications, lastOp,
                   laws, law_updates, sqlite_sequence, request>>

allSettled(rec) == \A j \in DOMAIN rec.settled : rec.settled[j] # "pending"

CrawlBatchDone ==
    \E k \in 1..MaxInFlight :
        /\ mayStep(k)
        /\ inv[k].pc = "crawl" /\ allSettled(inv[k])
        /\ Step(k, crawlBatchDone(inv[k], crawl_runs, clock))
        /\ UNCHANGED <<clock, sources, events, event_history, nextId, tx>>

TwitterDone ==
    \E k \in 1..MaxInFlight :
        /\ mayStep(k)
        /\ inv[k].pc = "twitter" /\ allSettled(inv[k])
        /\ Step(k, twitterDone(inv[k], crawl_runs, clock))
        /\ UNCHANGED <<clock, sources, events, event_history, nextId, tx>>

\* await sleep(TWITTER_INTER_QUERY_DELAY_MS) is over
SleepDone ==
    \E k \in 1..MaxInFlight :
        /\ mayStep(k)
        /\ inv[k].pc = "sleep"
        /\ inv' = [inv EXCEPT ![k] = crawlNext([inv[k] EXCEPT !.tw = @ + 1])]
        /\ UNCHANGED <<clock, sources, events, event_history, crawl_runs, nextId, tx,
                       notifications, lastOp,
                   laws, law_updates, sqlite_sequence, request>>

CrawlDone ==
    \E k \in 1..MaxInFlight :
        /\ mayStep(k)
        /\ inv[k].pc = "crawl_end"
        /\ Step(k, crawlDone(inv[k], crawl_runs, clock))
        /\ UNCHANGED <<clock, sources, events, event_history, nextId, tx>>

\* the model call for an item in flight settles
AnalyzeSettle(replySet) ==
    \E k \in 1..MaxInFlight :
        /\ mayStep(k)
        /\ inv[k].pc = "analyze"
        /\ \E j \in DOMAIN inv[k].settled :
              /\ inv[k].settled[j].kind = "pending"
              /\ \E reply \in replySet : inv' = [inv EXCEPT ![k].settled[j] = reply]
        /\ UNCHANGED <<clock, sources, events, event_history, crawl_runs, nextId, tx,
                       notifications, lastOp,
                   laws, law_updates, sqlite_sequence, request>>

\* the model calls of a batch settle in the order they were made
AnalyzeSettleInOrder(replySet) ==
    \E k \in 1..MaxInFlight :
        /\ mayStep(k)
        /\ inv[k].pc = "analyze"
        /\ \E j \in DOMAIN inv[k].settled :
              /\ inv[k].settled[j].kind = "pending"
              /\ \A h \in 1..(j - 1) : inv[k].settled[h].kind # "pending"
              /\ \E reply \in replySet : inv' = [inv EXCEPT ![k].settled[j] = reply]
        /\ UNCHANGED <<clock, sources, events, event_history, crawl_runs, nextId, tx,
                       notifications, lastOp,
                   laws, law_updates, sqlite_sequence, request>>

AnalyzeBatchDone ==
    \E k \in 1..MaxInFlight :
        /\ mayStep(k)
        /\ inv[k].pc = "analyze"
        /\ \A j \in DOMAIN inv[k].settled : inv[k].settled[j].kind # "pending"
        /\ Step(k, analyzeBatchDone(inv[k], crawl_runs, clock))
        /\ UNCHANGED <<clock, sources, events, event_history, nextId, tx>>

\* the continuation after analyzeItems; it opens the persist transaction
AnalyzeDone ==
    \E k \in 1..MaxInFlight :
        /\ inv[k].pc = "analyze_end"
        /\ tx = NoTx
        /\ LET o == analyzeDone(inv[k], crawl_runs, clock)
           IN  /\ Step(k, o)
               /\ tx' = IF o.settled = "pending"
                        THEN [ owner |-> k, before |-> committedStore, working |-> committedStore ]
                        ELSE tx
        /\ UNCHANGED <<clock, sources, events, event_history, nextId>>

\* one turn of the loop of the transaction function
PersistItem ==
    \E k \in 1..MaxInFlight :
        /\ inv[k].pc = "persist"
        /\ tx.owner = k
        /\ inv[k].p <= Len(inv[k].results)
        /\ LET entry == inv[k].results[inv[k].p]
           IN  \E sx \in sourceChoices(tx.working.sources, sourceOf(entry.item)) :
                 LET s == ensureSource(tx.working.sources, sourceOf(entry.item), sx, clock)
                     input == pipelineInput(entry.item, entry.analysis, s.id)
                 IN  \E ex \in existingChoices(tx.working.events, input) :
                       LET r == persistItem(tx.working, inv[k].t, entry, sx, ex, nextId, clock)
                           w == transactionWrite(committedStore, r.w)
                       IN  /\ tx' = [tx EXCEPT !.working = w.working]
                           /\ sources' = w.committed.sources
                           /\ events' = w.committed.events
                           /\ event_history' = w.committed.event_history
                           /\ nextId' = IF r.result = "new" THEN nextId + 1 ELSE nextId
                           /\ inv' = [inv EXCEPT ![k].p = @ + 1, ![k].t = r.t]
        /\ UNCHANGED <<clock, crawl_runs, notifications, lastOp,
                   laws, law_updates, sqlite_sequence, request>>

\* the transaction function returned: COMMIT, and the rest of runPipeline
PersistCommit ==
    \E k \in 1..MaxInFlight :
        /\ inv[k].pc = "persist"
        /\ tx.owner = k
        /\ inv[k].p > Len(inv[k].results)
        /\ sources' = tx.working.sources
        /\ events' = tx.working.events
        /\ event_history' = tx.working.event_history
        /\ tx' = NoTx
        /\ Settle(k, inv[k].origin, inv[k].throwsAt, inv[k].runId,
                  persistDone(inv[k], crawl_runs, clock), tx.working.events, lastOp)
        /\ UNCHANGED <<clock, nextId>>

\* the last callback of an invocation throws after completeCrawlRun
DoneCallback ==
    \E k \in 1..MaxInFlight :
        /\ mayStep(k)
        /\ inv[k].pc = "done"
        /\ Step(k, doneCallback(inv[k], crawl_runs, clock))
        /\ UNCHANGED <<clock, sources, events, event_history, nextId, tx>>

\* runs started by the trigger, one after the other
NextPipeline ==
    \/ Trigger
    \/ FetchSettle({"error", "ok", "no_token"})
    \/ CrawlBatchDone
    \/ TwitterDone
    \/ CrawlDone
    \/ AnalyzeSettle(replies)
    \/ AnalyzeBatchDone
    \/ AnalyzeDone
    \/ PersistItem
    \/ PersistCommit

SpecPipeline == InitPipeline /\ [][NextPipeline]_vars

\* a reply that places the item in a state of the country
stateReply == [relevantReply EXCEPT !.jurisdictionState = <<"c">>]

\* the replies of the model when every item is found relevant, with or without
\* a state
persistReplies ==
    { [ kind |-> "json", parsed |-> relevantReply ],
      [ kind |-> "json", parsed |-> stateReply ] }

\* runs started by the trigger whose items all reach the persist step
NextPersist ==
    \/ Trigger
    \/ FetchSettle({"error", "ok"})
    \/ CrawlBatchDone
    \/ TwitterDone
    \/ CrawlDone
    \/ AnalyzeSettle(persistReplies)
    \/ AnalyzeBatchDone
    \/ AnalyzeDone
    \/ PersistItem
    \/ PersistCommit

SpecPersist == InitPipeline /\ [][NextPersist]_vars

\* the options of the direct calls: a callback that throws when the run starts
directOptions == { [defaultOptions EXCEPT !.throwsAt = "start"] }

\* the replies of the model while it is out of reach
noReplies == { reply \in replies : reply.kind = "error" }

\* runs started by the trigger, by the CLI and by direct calls, side by side,
\* while the model is out of reach: every run goes through all its stages and
\* leaves the events as they are
NextCoord ==
    \/ Trigger
    \/ CliMain
    \/ DirectCall(directOptions)
    \/ FetchSettle({"error", "ok"})
    \/ CrawlBatchDone
    \/ TwitterDone
    \/ CrawlDone
    \/ AnalyzeSettle(noReplies)
    \/ AnalyzeBatchDone
    \/ AnalyzeDone
    \/ PersistCommit

SpecCoord == InitPipeline /\ [][NextCoord]_vars

\* the server process is stopped and started again: the invocations in flight
\* are gone with the process, SQLite rolls the open transaction back, and the
\* start-up opens the database, runs initializeSchema and backfills the laws;
\* no step of it writes crawl_runs
Restart ==
    /\ sqlite_sequence.law_updates + Len(events) <= MaxSequence
    /\ inv' = [ k \in 1..MaxInFlight |-> Idle ]
    /\ tx' = NoTx
    /\ \E eventRows \in {eventRowsOf(sources, events)} :
       \E groups \in {groupsFrom(eventRows, 1, <<>>)} :
       \E r \in {transaction(lawTables, statementsOf(groups, sqlite_sequence, clock), 0)} :
          /\ laws' = r.tables.laws
          /\ law_updates' = r.tables.law_updates
          /\ sqlite_sequence' = r.tables.sqlite_sequence
    /\ lastOp' = [ op |-> "restart", input |-> <<>>, result |-> "none", matched |-> 0,
                   afterNew |-> FALSE ]
    /\ UNCHANGED <<clock, sources, events, event_history, crawl_runs, nextId, notifications,
                   request>>

\* a server that is triggered and restarted, while the model is out of reach
NextRestart ==
    \/ Tick
    \/ Trigger
    \/ Restart
    \/ FetchSettle({"error", "ok"})
    \/ CrawlBatchDone
    \/ TwitterDone
    \/ CrawlDone
    \/ AnalyzeSettle(noReplies)
    \/ AnalyzeBatchDone
    \/ AnalyzeDone
    \/ PersistCommit

SpecRestart == InitPipeline /\ [][NextRestart]_vars

\* sources a caller can pass to ensureSource: three names over two urls
ensureInputs ==
    { [ name |-> name, url |-> url, authorityType |-> "national",
        jurisdiction |-> <<"u">>, reliabilityTier |-> 5 ] :
      name \in { <<"n">>, <<"m">>, <<"k">> }, url \in { <<"h">>, <<"i">> } }

\* a call of ensureSource; the call before it is kept beside it
EnsureCall ==
    \E source \in ensureInputs : \E ex \in sourceChoices(sources, source) :
        LET r == ensureSource(sources, source, ex, clock)
        IN  /\ sources' = r.sources
            /\ lastOp' = [ op |-> "ensureSource", input |-> source,
                           result |-> IF r.ok THEN "returned" ELSE "raised",
                           matched |-> r.id, afterNew |-> lastOp.op = "ensureSource",
                           before |-> IF lastOp.op = "ensureSource" /\ lastOp.result = "returned"
                                      THEN [ name |-> lastOp.input.name, id |-> lastOp.matched ]
                                      ELSE [ name |-> source.name, id |-> r.id ] ]
            /\ UNCHANGED <<clock, events, event_history, crawl_runs, nextId, tx, inv,
                           notifications, laws, law_updates, sqlite_sequence, request>>

\* calls of ensureSource on a table that starts empty
NextSources == Tick \/ EnsureCall

SpecSources == InitPipeline /\ [][NextSources]_vars

\* the options of callers whose callback throws at the stage "done" or never
callbackOptions == { [defaultOptions EXCEPT !.throwsAt = at] : at \in {"done", "none"} }

\* runs of callers with a callback of their own, while the model is out of
\* reach
NextCallback ==
    \/ Tick
    \/ DirectCall(callbackOptions)
    \/ FetchSettle({"ok"})
    \/ CrawlBatchDone
    \/ TwitterDone
    \/ CrawlDone
    \/ AnalyzeSettle(noReplies)
    \/ AnalyzeBatchDone
    \/ AnalyzeDone
    \/ PersistCommit
    \/ DoneCallback

SpecCallback == InitPipeline /\ [][NextCallback]_vars

\* a source of the given type, name and url
sourceOfType(type, name, url) ==
    [ name |-> name, url |-> url, type |-> type,
      authorityType |-> "national", jurisdiction |-> <<"u">>,
      jurisdictionCountry |-> <<"u">>, jurisdictionState |-> Null,
      reliabilityTier |-> 3 ]

\* options.sources of a caller that crawls three pages and feeds and two
\* microblog searches, the searches listed among the others
manySources ==
    << sourceOfType("government_page", <<"g">>, <<"h">>),
       sourceOfType("twitter_search", <<"w">>, <<"k">>),
       sourceOfType("rss_feed", <<"f">>, <<"i">>),
       sourceOfType("twitter_search", <<"v">>, <<"l">>),
       sourceOfType("news_search", <<"n">>, <<"j">>) >>

\* the options of callers that set the parallelism of the crawl
crawlOptions ==
    { [ sources |-> manySources, crawlConcurrency |-> c, analyzeConcurrency |-> 1,
        throwsAt |-> "none" ] : c \in {1, 2, 5} }

\* crawls of many sources at a chosen parallelism, while the model is out of
\* reach
NextCrawl ==
    \/ DirectCall(crawlOptions)
    \/ FetchSettle({"ok"})
    \/ CrawlBatchDone
    \/ TwitterDone
    \/ SleepDone
    \/ CrawlDone
    \/ AnalyzeSettle(noReplies)
    \/ AnalyzeBatchDone
    \/ AnalyzeDone
    \/ PersistCommit

SpecCrawl == InitPipeline /\ [][NextCrawl]_vars

\* a reply that finds the item relevant and the law enacted
enactedReply == [relevantReply EXCEPT !.stage = "enacted", !.summary = <<"t">>]

\* the replies of the model when it does not say the same of an article twice
dedupReplies ==
    { [ kind |-> "json", parsed |-> relevantReply ],
      [ kind |-> "json", parsed |-> enactedReply ],
      [ kind |-> "json", parsed |-> stateReply ] }

\* options.sources of a caller that crawls two feeds that link to the same
\* article
feedSources ==
    << sourceOfType("rss_feed", <<"f">>, <<"i">>),
       sourceOfType("rss_feed", <<"n">>, <<"j">>) >>

dedupOptions ==
    { [ sources |-> feedSources, crawlConcurrency |-> 5, analyzeConcurrency |-> 12,
        throwsAt |-> "none" ] }

\* runs over sources that return the same article
NextDedup ==
    \/ DirectCall(dedupOptions)
    \/ FetchSettle({"ok"})
    \/ CrawlBatchDone
    \/ CrawlDone
    \/ AnalyzeSettle(dedupReplies)
    \/ AnalyzeBatchDone
    \/ AnalyzeDone
    \/ PersistItem
    \/ PersistCommit

SpecDedup == InitPipeline /\ [][NextDedup]_vars

\* letters that tell the sources of a wide registry apart
letters ==
    << "a", "b", "c", "d", "e", "f", "g", "h", "i", "j", "k", "l", "m", "n", "o", "p", "q",
       "r", "s", "t", "u", "v", "w", "x", "y", "z" >>

\* a registry of government pages, one more than the query of the trigger's
\* continuation returns
wideRegistry ==
    [ i \in 1..(NotificationLimit + 1) |->
        sourceOfType("government_page", <<"g", letters[i]>>, <<"h", letters[i]>>) ]

wideOptions == [defaultOptions EXCEPT !.sources = wideRegistry]

\* the reply of a model that finds every item relevant and of high risk
highRiskReplies == { [ kind |-> "json", parsed |-> relevantReply ] }

\* runs started by the trigger of a server with the wide registry; the model
\* answers the calls of a batch in order
NextSeed ==
    \/ TriggerOf(wideOptions)
    \/ FetchSettle({"ok"})
    \/ CrawlBatchDone
    \/ CrawlDone
    \/ AnalyzeSettleInOrder(highRiskReplies)
    \/ AnalyzeBatchDone
    \/ AnalyzeDone
    \/ PersistItem
    \/ PersistCommit

SpecSeed == InitPipeline /\ [][NextSeed]_vars

\* the searches of the microblog fetcher, one after the other
NextSearch == Tick \/ SearchStart \/ SearchRespond \/ SearchBackoffDone

SpecSearch == InitPipeline /\ [][NextSearch]_vars

(***************************************************************************)
(* Properties of the store.                                                *)
(***************************************************************************)
\* the step is a call of upsertEvent
isUpsertStep ==
    /\ lastOp'.op = "upsert"
    /\ <<events, event_history, nextId, lastOp>>' # <<events, event_history, nextId, lastOp>>

\* the stored row with the given id
rowOf(evs, id) == evs[CHOOSE i \in 1..Len(evs) : evs[i].id = id]

\* C4: upserting an event that came back "new" once more with identical fields
\* returns "duplicate", leaves one row for it and changes nothing in the store.
IdempotentUpsert ==
    [][ ( /\ isUpsertStep
          /\ lastOp.op = "upsert"
          /\ lastOp.result = "new"
          /\ lastOp'.input = lastOp.input )
        => ( /\ lastOp'.result = "duplicate"
             /\ events' = events
             /\ event_history' = event_history
             /\ sources' = sources
             /\ Cardinality(matchingRows(events', lastOp'.input)) = 1 ) ]_vars

\* reached: the second of two identical upserts, the first of which was "new"
IdempotentUpsertWitness ==
    /\ lastOp.op = "upsert"
    /\ lastOp.afterNew
    /\ lastOp.result = "duplicate"
    /\ Len(events) >= 1

\* C5: an upsert that matches a stored event and differs from it in stage,
\* summary, business impact, age bracket or a score returns "updated", keeps the
\* number of rows, and appends one history row for the matched event, which is
\* status_changed with the old and new stage iff the stage changed, else updated.
ChangeDetection ==
    [][ ( isUpsertStep /\ matchingRows(events, lastOp'.input) # {} )
        => ( /\ lastOp'.matched \in { events[i].id : i \in matchingRows(events, lastOp'.input) }
             /\ LET old == rowOf(events, lastOp'.matched)
                    input == lastOp'.input
                    differs ==
                        \/ old.stage # input.stage
                        \/ old.summary # input.summary
                        \/ old.business_impact # input.businessImpact
                        \/ old.age_bracket # input.ageBracket
                        \/ old.impact_score # input.impactScore
                        \/ old.likelihood_score # input.likelihoodScore
                        \/ old.confidence_score # input.confidenceScore
                        \/ old.chili_score # input.chiliScore
                IN  differs =>
                      /\ lastOp'.result = "updated"
                      /\ Len(events') = Len(events)
                      /\ Len(event_history') = Len(event_history) + 1
                      /\ SubSeq(event_history', 1, Len(event_history)) = event_history
                      /\ LET h == event_history'[Len(event_history')]
                         IN  /\ h.event_id = old.id
                             /\ (h.change_type = "status_changed") = (old.stage # input.stage)
                             /\ old.stage # input.stage =>
                                   h.previous_value = old.stage /\ h.new_value = input.stage
                             /\ old.stage = input.stage => h.change_type = "updated" ) ]_vars

\* reached: an update that changed the stage and wrote a status_changed row
ChangeDetectionWitness ==
    /\ lastOp.op = "upsert"
    /\ lastOp.result = "updated"
    /\ Len(events) = 1
    /\ Len(event_history) >= 2
    /\ event_history[Len(event_history)].change_type = "status_changed"
    /\ event_history[Len(event_history)].previous_value = "proposed"
    /\ event_history[Len(event_history)].new_value = "enacted"

\* the stored row and the input have the same country and title
sameCountryAndTitle(row, input) ==
    row.jurisdiction_country = input.jurisdictionCountry /\ row.title = input.title

nonEmptyUrl(url) == url # Null /\ url # Empty

historyOf(id) == { k \in 1..Len(event_history) : event_history[k].event_id = id }

\* h comes first in (changed_at, id) order among the rows ks
isFirst(h, ks) ==
    \A k \in ks :
        \/ event_history[h].changed_at < event_history[k].changed_at
        \/ /\ event_history[h].changed_at = event_history[k].changed_at
           /\ event_history[h].id <= event_history[k].id

\* C7: every event has a history row, and its first history row in
\* (changed_at, id) order has change_type created.
HistoryStartsWithCreated ==
    \A i \in 1..Len(events) :
        /\ historyOf(events[i].id) # {}
        /\ \A h \in historyOf(events[i].id) :
              isFirst(h, historyOf(events[i].id)) => event_history[h].change_type = "created"

\* reached: an event edited by hand and updated by the pipeline in the very
\* millisecond it was created, so that only the id orders its history
HistoryStartsWithCreatedWitness ==
    \E i \in 1..Len(events) :
        \E h1, h2, h3 \in historyOf(events[i].id) :
            /\ event_history[h1].change_type = "created"
            /\ event_history[h2].changed_by = "analyst"
            /\ event_history[h3].change_type = "status_changed"
            /\ event_history[h2].changed_at = event_history[h1].changed_at
            /\ event_history[h3].changed_at = event_history[h1].changed_at

(***************************************************************************)
(* Properties of the coordinator.                                          *)
(***************************************************************************)
\* the step is a POST /api/crawl request
isTriggerStep == lastOp'.op = "trigger" /\ lastOp' # lastOp

\* the crawl_runs row with the given id
runOf(runs, id) == runs[CHOOSE i \in 1..Len(runs) : runs[i].id = id]

\* the crawl_runs row of the greatest id is running
latestIsRunning ==
    Len(crawl_runs) > 0 /\ crawl_runs[Len(crawl_runs)].status = "running"

\* C1 as stated: every trigger made while the latest run is running is answered
\* 409 with the id of that run, and creates no crawl_runs row.
TriggerConflictAsStated ==
    [][ ( isTriggerStep /\ latestIsRunning )
        => ( /\ lastOp'.result = 409
             /\ lastOp'.matched = crawl_runs[Len(crawl_runs)].id
             /\ crawl_runs' = crawl_runs ) ]_vars

\* C1 amended: while the latest run is running, a trigger made with
\* MINIMAX_API_KEY set is answered 409 with the id of that run, a trigger made
\* without the key is answered 500, and neither creates a crawl_runs row or
\* starts a run, in whatever stage the running pipeline is.
TriggerConflict ==
    [][ ( isTriggerStep /\ latestIsRunning )
        => ( /\ lastOp'.input =>
                   /\ lastOp'.result = 409
                   /\ lastOp'.matched = crawl_runs[Len(crawl_runs)].id
             /\ ~lastOp'.input => lastOp'.result = 500
             /\ crawl_runs' = crawl_runs
             /\ inv' = inv ) ]_vars

\* reached: a trigger answered 409 with the id of the run whose persist
\* transaction is open
TriggerConflictWitness ==
    /\ lastOp.op = "trigger"
    /\ lastOp.result = 409
    /\ tx.owner # 0
    /\ inv[tx.owner].pc = "persist"
    /\ lastOp.matched = inv[tx.owner].runId
    /\ latestIsRunning
    /\ crawl_runs[Len(crawl_runs)].id = lastOp.matched

\* C2: at most one crawl_runs row has status running.
SingleFlight ==
    Cardinality({ i \in 1..Len(crawl_runs) : crawl_runs[i].status = "running" }) <= 1

\* C3: no call of runPipeline has returned or rejected and left its row running.
NoRunLeftRunning ==
    lastOp.op = "runPipeline" => runOf(crawl_runs, lastOp.matched).status # "running"

(***************************************************************************)
(* Properties of a run.                                                    *)
(***************************************************************************)
\* C8: while the persist transaction of a run is open the committed tables,
\* which are what every other connection reads, are the ones the transaction
\* started from, and the step that closes it puts all it wrote in their place.
PersistAtomic ==
    [][ tx.owner # 0 =>
          /\ committedStore = tx.before
          /\ tx'.owner = 0 => committedStore' = tx.working ]_vars

\* reached: an open transaction that has written one event and its source and
\* has an item left to write
PersistAtomicWitness ==
    /\ tx.owner # 0
    /\ Len(tx.working.events) = Len(events) + 1
    /\ Len(tx.working.event_history) = Len(event_history) + 1
    /\ tx.working.sources # sources
    /\ inv[tx.owner].p <= Len(inv[tx.owner].results)

\* invocation k takes the step that follows the settling of its fetches
isCrawlJoin(k) ==
    /\ inv[k].pc \in {"crawl", "twitter"}
    /\ allSettled(inv[k])
    /\ inv'[k] # inv[k]

\* the sources whose fetches invocation k awaits
awaited(k) ==
    IF inv[k].pc = "crawl" THEN crawlBatch(inv[k])
    ELSE <<twitterSources(inv[k])[inv[k].tw + 1]>>

\* the items of the awaited sources whose fetch succeeded, in order
RECURSIVE fetchedItems(_, _, _)
fetchedItems(srcs, kinds, j) ==
    IF j > Len(srcs) THEN <<>>
    ELSE (IF kinds[j] = "ok" THEN crawledFrom(srcs[j]) ELSE <<>>)
            \o fetchedItems(srcs, kinds, j + 1)

\* C9: when the fetches a run awaits have settled, the items of the sources
\* that were fetched are added to the items crawled so far and a source whose
\* fetch failed adds none; the run goes on, its row still running; and the
\* crawl returns every item added.
FetchFailureAbsorbed ==
    [][ \A k \in 1..MaxInFlight :
          isCrawlJoin(k) =>
            /\ inv'[k].pc \in {"crawl", "twitter", "sleep", "crawl_end"}
            /\ runOf(crawl_runs', inv[k].runId).status = "running"
            /\ inv'[k].allItems = inv[k].allItems \o fetchedItems(awaited(k), inv[k].settled, 1)
            /\ inv'[k].pc = "crawl_end" =>
                  \A a \in 1..Len(inv'[k].allItems) :
                     \E b \in 1..Len(inv'[k].items) : inv'[k].items[b] = inv'[k].allItems[a] ]_vars

\* reached: a crawl that returned the item of the microblog search after the
\* fetch of the government page had failed
FetchFailureAbsorbedWitness ==
    \E k \in 1..MaxInFlight :
        /\ inv[k].pc = "crawl_end"
        /\ inv[k].items = crawledFrom(twitterSearchSources[1])
        /\ runOf(crawl_runs, inv[k].runId).status = "running"

\* invocation k takes the step that follows the settling of its analyses
isAnalyzeJoin(k) ==
    /\ inv[k].pc = "analyze"
    /\ \A j \in DOMAIN inv[k].settled : inv[k].settled[j].kind # "pending"
    /\ inv'[k] # inv[k]

\* the analyzer dropped the item: the call failed, the reply did not parse, or
\* the reply judged the item not relevant
isDropped(reply) ==
    reply.kind \in {"error", "unparsable"} \/ reply.parsed.relevant = "false"

\* the items of the batch the analyzer did not drop, in order
RECURSIVE keptItems(_, _, _)
keptItems(batch, settled, j) ==
    IF j > Len(batch) THEN <<>>
    ELSE (IF isDropped(settled[j]) THEN <<>> ELSE <<batch[j]>>)
            \o keptItems(batch, settled, j + 1)

\* the event rows the open transaction has written
writtenRows ==
    { i \in 1..Len(tx.working.events) :
        i > Len(tx.before.events) \/ tx.working.events[i] # tx.before.events[i] }

\* C10: when the analyses a run awaits have settled, exactly the items the
\* analyzer did not drop go on to the persist step, in order, and the run goes
\* on; the persist step writes events for those items only and has an event
\* for each of them when it ends; and the run then completes.
AnalyzerFailureDropsItem ==
    [][ \A k \in 1..MaxInFlight :
          /\ isAnalyzeJoin(k) =>
                /\ inv'[k].pc \in {"analyze", "analyze_end"}
                /\ runOf(crawl_runs', inv[k].runId).status = "running"
                /\ Len(inv'[k].results) =
                      Len(inv[k].results) + Len(keptItems(analyzeBatch(inv[k]), inv[k].settled, 1))
                /\ \A j \in 1..Len(keptItems(analyzeBatch(inv[k]), inv[k].settled, 1)) :
                      inv'[k].results[Len(inv[k].results) + j].item
                          = keptItems(analyzeBatch(inv[k]), inv[k].settled, 1)[j]
          /\ ( inv[k].pc = "persist" /\ tx.owner = k ) =>
                \A i \in writtenRows :
                   \E e \in 1..(inv[k].p - 1) :
                      inv[k].results[e].item.url = tx.working.events[i].source_url_link
          /\ ( inv[k].pc = "persist" /\ tx.owner = k /\ inv'[k].pc = "idle" ) =>
                /\ \A e \in 1..Len(inv[k].results) :
                      \E i \in 1..Len(events') :
                         events'[i].source_url_link = inv[k].results[e].item.url
                /\ runOf(crawl_runs', inv[k].runId).status = "completed" ]_vars

\* reached: a run that crawled two items, lost one of them in the analyzer,
\* stored the other and completed
AnalyzerFailureDropsItemWitness ==
    /\ lastOp.op = "runPipeline"
    /\ lastOp.result = "resolved"
    /\ lastOp.value.itemsCrawled = 2
    /\ lastOp.value.itemsRelevant = 1
    /\ lastOp.value.itemsNew = 1
    /\ Len(events) = 1
    /\ runOf(crawl_runs, lastOp.matched).status = "completed"

(***************************************************************************)
(* Properties of the persist step.                                         *)
(***************************************************************************)
\* invocation k takes a turn of the persist loop
isPersistTurn(k) ==
    /\ inv[k].pc = "persist"
    /\ tx.owner = k
    /\ inv'[k].pc = "persist"
    /\ inv'[k].p = inv[k].p + 1

\* invocation k leaves the persist step
isPersistEnd(k) == inv[k].pc = "persist" /\ tx.owner = k /\ inv'[k].pc = "idle"

\* the INSERT of the entry breaks the unique index on (url, country, title): a
\* stored event has its URL, country and title, and another state
clashes(evs, entry) ==
    \E i \in 1..Len(evs) :
        /\ evs[i].source_url_link = entry.item.url
        /\ evs[i].jurisdiction_country = entry.analysis.jurisdiction
        /\ evs[i].title = entry.analysis.title
        /\ evs[i].jurisdiction_state # entry.analysis.jurisdictionState

\* the tallies of the stored items
tallied(t) == t.itemsNew + t.itemsUpdated + t.itemsDuplicate

\* a stored event has the identity of the entry
isStored(evs, entry) ==
    \E i \in 1..Len(evs) :
        /\ evs[i].source_url_link = entry.item.url
        /\ evs[i].jurisdiction_country = entry.analysis.jurisdiction
        /\ evs[i].title = entry.analysis.title
        /\ evs[i].jurisdiction_state = entry.analysis.jurisdictionState

isResponseStep ==
    /\ request.pc = "fetch"
    /\ request'.pc # "fetch"
    /\ request'.statuses[Len(request'.statuses)] # 0

\* C12: after a response that is not 2xx the fetcher goes on to a further
\* attempt when the status is 408, 429 or 5xx (and an attempt is left), and only
\* then: after any other status it ends the request at once, without a wait.
RetryOnlyRetriable ==
    [][ isResponseStep =>
          LET status == request'.statuses[Len(request'.statuses)]
              retriable == status \in {408, 429} \/ (status >= 500 /\ status <= 599)
          IN  (status < 200 \/ status > 299) =>
                /\ (retriable /\ request.attempt < TWITTER_MAX_RETRIES) => request'.pc = "sleep"
                /\ ~retriable => ( request'.pc = "thrown" /\ request'.waits = request.waits ) ]_vars

(***************************************************************************)
(* Properties of the crawl.                                                *)
(***************************************************************************)
\* the sources of invocation k whose fetch is in flight
inFlight(k) ==
    IF inv[k].pc = "crawl"
    THEN { inv[k].sources[a] : a \in { a \in 1..Len(inv[k].sources) :
              \E j \in 1..Len(inv[k].settled) :
                 /\ inv[k].settled[j] = "pending"
                 /\ crawlBatch(inv[k])[j] = inv[k].sources[a] } }
    ELSE IF inv[k].pc = "twitter" /\ inv[k].settled = <<"pending">>
    THEN { twitterSources(inv[k])[inv[k].tw + 1] }
    ELSE {}

\* C13: in a crawl at most crawlConcurrency fetches of sources other than
\* microblog searches are in flight, at most one microblog search is, and
\* never a microblog search together with a fetch of another source.
BoundedFetchConcurrency ==
    \A k \in 1..MaxInFlight :
        inv[k].pc # "idle" =>
            LET searches == { source \in inFlight(k) : source.type = "twitter_search" }
                others == inFlight(k) \ searches
            IN  /\ Cardinality(others) <= inv[k].crawlConcurrency
                /\ Cardinality(searches) <= 1
                /\ searches = {} \/ others = {}

\* reached: a crawl at parallelism 2 with two fetches in flight, and a crawl
\* whose second microblog search is in flight after the first has ended
BoundedFetchConcurrencyWitness ==
    /\ \E k \in 1..MaxInFlight :
          /\ inv[k].pc = "crawl"
          /\ inv[k].crawlConcurrency = 2
          /\ Cardinality(inFlight(k)) = 2
    /\ \E k \in 1..MaxInFlight :
          /\ inv[k].pc = "twitter"
          /\ inv[k].tw = 1
          /\ Cardinality(inFlight(k)) = 1

(***************************************************************************)
(* Properties of the dedup within a run.                                   *)
(***************************************************************************)
\* the pipeline dedup key of an analysed item
keyOf(entry) ==
    buildDeduplicationKey(entry.analysis.jurisdiction, entry.analysis.jurisdictionState,
                          entry.analysis.title, entry.item.url, entry.item.text)

\* an earlier item of the run has the key of item p
isRepeat(rec, p) == \E e \in 1..(p - 1) : keyOf(rec.results[e]) = keyOf(rec.results[p])

\* C14: in the persist loop of a run an item whose dedup key an earlier item of
\* the run has is skipped: it is counted as duplicate and the events and their
\* history stay as they are, so the fields of the first are kept; an item that
\* is the first of its key goes to upsertEvent and has its event afterwards.
InRunDedup ==
    [][ \A k \in 1..MaxInFlight :
          isPersistTurn(k) =>
            LET t == inv[k].t
                u == inv'[k].t
            IN  /\ isRepeat(inv[k], inv[k].p) =>
                      /\ tx'.working.events = tx.working.events
                      /\ tx'.working.event_history = tx.working.event_history
                      /\ u.itemsDuplicate = t.itemsDuplicate + 1
                      /\ u.itemsNew = t.itemsNew
                      /\ u.itemsUpdated = t.itemsUpdated
                      /\ u.errors = t.errors
                /\ ~isRepeat(inv[k], inv[k].p) =>
                      \/ isStored(tx'.working.events, inv[k].results[inv[k].p])
                      \/ u.errors # t.errors ]_vars

\* reached: the second item of a run has the key of the first and another
\* stage; its turn is over, it was counted as duplicate, and the event has the
\* stage of the first and no second row of history
InRunDedupWitness ==
    \E k \in 1..MaxInFlight :
        /\ inv[k].pc = "persist"
        /\ tx.owner = k
        /\ inv[k].p = 3
        /\ keyOf(inv[k].results[1]) = keyOf(inv[k].results[2])
        /\ inv[k].results[1].analysis.stage = "introduced"
        /\ inv[k].results[2].analysis.stage = "enacted"
        /\ inv[k].t.itemsNew = 1
        /\ inv[k].t.itemsDuplicate = 1
        /\ Len(tx.working.events) = 1
        /\ tx.working.events[1].stage = "introduced"
        /\ Len(tx.working.event_history) = 1

(***************************************************************************)
(* Properties of the law backfill.                                         *)
(***************************************************************************)
\* the canonical key inferred for a stored event
lawKeyOf(e) ==
    inferCanonicalLaw([ title |-> e.title, summary |-> e.summary, content |-> e.raw_text,
                        jurisdictionCountry |-> e.jurisdiction_country,
                        jurisdictionState |-> e.jurisdiction_state ]).lawKey

\* the rows of law_updates of an event, and of a law
updatesOfEvent(id) == { u \in 1..Len(law_updates) : law_updates[u].event_id = id }
updatesOfLaw(id) == { u \in 1..Len(law_updates) : law_updates[u].law_id = id }

\* the last call was a backfill that returned, and nothing was stored since
isBackfilled == lastOp.op = "backfill" /\ lastOp.result = "returned"

\* C15: after a backfill every event has exactly one row of law_updates, the
\* row is of the one law whose law_key is the canonical key inferred for the
\* event, and every law has as many rows of law_updates as there are events
\* with its key.
BackfillCoversEvents ==
    isBackfilled =>
        /\ \A i \in 1..Len(events) :
              /\ Cardinality(updatesOfEvent(events[i].id)) = 1
              /\ \A u \in updatesOfEvent(events[i].id) :
                    /\ Cardinality({ l \in 1..Len(laws) : laws[l].id = law_updates[u].law_id }) = 1
                    /\ \A l \in 1..Len(laws) :
                          laws[l].id = law_updates[u].law_id
                             <=> laws[l].law_key = lawKeyOf(events[i])
        /\ \A l \in 1..Len(laws) :
              Cardinality(updatesOfLaw(laws[l].id))
                 = Cardinality({ i \in 1..Len(events) : lawKeyOf(events[i]) = laws[l].law_key })
        /\ \A u \in 1..Len(law_updates) :
              \E i \in 1..Len(events) : events[i].id = law_updates[u].event_id

\* reached: a backfill of two events of one law
BackfillCoversEventsWitness ==
    /\ isBackfilled
    /\ Len(events) = 2
    /\ Len(laws) = 1
    /\ Len(law_updates) = 2

\* what is compared of a law, and the law of each event
lawFacts(t) ==
    [ l \in 1..Len(t) |->
        [ law_key |-> t[l].law_key, law_name |-> t[l].law_name, stage |-> t[l].stage,
          aggregate_risk_max |-> t[l].aggregate_risk_max ] ]

assignment(t, u) ==
    [ k \in 1..Len(u) |->
        [ event_id |-> u[k].event_id,
          law_keys |-> { t[l].law_key : l \in { x \in 1..Len(t) : t[x].id = u[k].law_id } } ] ]

\* C16: a backfill that returns right after a backfill that returned, the
\* events and sources being the same, leaves the same laws (key, name, stage
\* and largest risk) and the same law for each event.
BackfillIdempotent ==
    [][ (isBackfilled /\ lastOp'.op = "backfill" /\ lastOp'.result = "returned")
            => /\ lawFacts(laws') = lawFacts(laws)
               /\ assignment(laws', law_updates') = assignment(laws, law_updates) ]_vars

\* reached: the second of two backfills in succession has returned, over two
\* events of one law and with fresh rowids
BackfillIdempotentWitness ==
    /\ isBackfilled
    /\ lastOp.afterNew
    /\ Len(events) = 2
    /\ Len(laws) = 1
    /\ laws[1].id > 1
    /\ law_updates[1].id > 2

\* C17: a backfill that raises leaves laws and law_updates as they were.
BackfillAllOrNothing ==
    [][ (lastOp'.op = "backfill" /\ lastOp'.result = "raised")
            => /\ laws' = laws
               /\ law_updates' = law_updates
               /\ sqlite_sequence' = sqlite_sequence ]_vars

\* reached: a backfill has raised over tables that were filled before and are
\* behind the events
BackfillAllOrNothingWitness ==
    /\ lastOp.op = "backfill"
    /\ lastOp.result = "raised"
    /\ Len(laws) = 1
    /\ Len(law_updates) = 1
    /\ Len(events) = 2
    /\ lawKeyOf(events[1]) # lawKeyOf(events[2])

(***************************************************************************)
(* Properties of the work after a run.                                     *)
(***************************************************************************)
\* the run of the last call has resolved and its row says completed; the
\* continuation of the caller has run
isCompletedRun ==
    /\ lastOp.op = "runPipeline"
    /\ lastOp.result = "resolved"
    /\ crawl_runs[lastOp.matched].status = "completed"

\* C18: when a run has completed and the work after it is done, every event
\* has its row in law_updates, of the law with the event's canonical key.
CrawlIsBackfilled ==
    isCompletedRun =>
        \A i \in 1..Len(events) :
            /\ Cardinality(updatesOfEvent(events[i].id)) = 1
            /\ \A u \in updatesOfEvent(events[i].id) :
                  \E l \in 1..Len(laws) :
                      /\ laws[l].id = law_updates[u].law_id
                      /\ laws[l].law_key = lawKeyOf(events[i])

\* the rows of notifications of an event
notificationsOf(id) == { row \in notifications : row.event_id = id }

\* C19: when a run started by the trigger has completed and the seeding is
\* done, every event the run created with a chili of 4 or more has exactly one
\* notification, critical for a chili of 5 and warning otherwise, and no event
\* has more than one.  The events are those of the run when the run found the
\* store empty.
HighRiskNotified ==
    /\ \A i \in 1..Len(events) : Cardinality(notificationsOf(events[i].id)) <= 1
    /\ (isCompletedRun /\ lastOp.input.origin = "http" /\ lastOp.value.itemsNew = Len(events))
          => \A i \in 1..Len(events) :
                events[i].chili_score >= 4 =>
                    /\ Cardinality(notificationsOf(events[i].id)) = 1
                    /\ \A row \in notificationsOf(events[i].id) :
                          row.severity = IF events[i].chili_score >= 5 THEN "critical"
                                         ELSE "warning"

\* a step is a trigger made while MINIMAX_API_KEY is not set
isTriggerWithoutKey == lastOp' # lastOp /\ lastOp'.op = "trigger" /\ ~lastOp'.input

\* C20: a trigger made while MINIMAX_API_KEY is not set is answered with the
\* error status 500 and changes nothing: no row of crawl_runs, no invocation
\* of the pipeline (so no fetch), no source, event, history row or notification.
TriggerNeedsKey ==
    [][ isTriggerWithoutKey =>
            /\ lastOp'.result = 500
            /\ crawl_runs' = crawl_runs
            /\ inv' = inv
            /\ tx' = tx
            /\ sources' = sources
            /\ events' = events
            /\ event_history' = event_history
            /\ notifications' = notifications ]_vars

\* reached: the trigger was refused for the missing key, after a run that
\* stored an event, while no run was in progress
TriggerNeedsKeyWitness ==
    /\ lastOp.op = "trigger"
    /\ ~lastOp.input
    /\ lastOp.result = 500
    /\ Len(crawl_runs) = 1
    /\ crawl_runs[1].status = "completed"
    /\ Len(events) = 1

(***************************************************************************)
(* Properties of the source rows.                                          *)
(***************************************************************************)
\* C21: when a run has completed in which every source of the registry gave
\* its item, every source of the registry has a row whose last_crawled_at is
\* a time of the run (-1 is NULL).
FetchedSourcesStamped ==
    (isCompletedRun /\ lastOp.value.itemsCrawled = Len(defaultOptions.sources))
        => \A j \in 1..Len(defaultOptions.sources) :
              \E i \in 1..Len(sources) :
                  /\ sources[i].name = defaultOptions.sources[j].name
                  /\ sources[i].last_crawled_at # -1
                  /\ sources[i].last_crawled_at >= crawl_runs[lastOp.matched].started_at

(***************************************************************************)
(* Properties of the crawled items.                                        *)
(***************************************************************************)
\* the items of invocation k that microblog searches gave; the URL of such an
\* item is made of the tweet ID
tweetItems(k) ==
    { a \in 1..Len(inv[k].items) : inv[k].items[a].source.type = "twitter_search" }

\* C22: the crawled items of a run have no two items of one tweet, whichever
\* searches returned it.
OneItemPerTweet ==
    \A k \in 1..MaxInFlight :
        inv[k].pc # "idle" =>
            \A a, b \in tweetItems(k) :
                inv[k].items[a].url = inv[k].items[b].url => a = b

(***************************************************************************)
(* Properties of the canonical key.                                        *)
(***************************************************************************)
\* C23: two calls of inferCanonicalLaw with the same input return the same
\* lawKey, and two calls with the same title, summary and content and with
\* different jurisdictions (country, state) return different lawKeys.
LawKeyTellsJurisdictions ==
    lastOp.op = "infer" =>
        LET a == lastOp.before.input
            b == lastOp.input
        IN  /\ a = b => lastOp.before.result = lastOp.result
            /\ ( /\ a.title = b.title /\ a.summary = b.summary /\ a.content = b.content
                 /\ <<a.jurisdictionCountry, a.jurisdictionState>>
                       # <<b.jurisdictionCountry, b.jurisdictionState>> )
                  => lastOp.before.result # lastOp.result

(***************************************************************************)
(* Properties of the analyzer.                                             *)
(***************************************************************************)
\* C24: whatever the reply holds in the place of a score, the score of the
\* input built for persistence is an integer of 1..5; a finite number below the
\* range gives 1, one above it gives 5, one inside it is rounded with halves
\* upwards, and a number that is not finite, a missing value or a string that
\* spells no number gives 3.
ScoresCoerced ==
    lastOp.op = "analyze" =>
        \A f \in scoreFields :
            LET v == lastOp.input[f]
                s == lastOp.result[f]
            IN  /\ s \in ScoreMin..ScoreMax
                /\ (v.type = "number" /\ v.finite) =>
                      /\ v.tenths < 15 => s = 1
                      /\ v.tenths >= 45 => s = 5
                      /\ (v.tenths >= 15 /\ v.tenths < 45) =>
                            (10 * s - 5 <= v.tenths /\ v.tenths < 10 * s + 5)
                /\ (v.type = "number" /\ ~v.finite) => s = 3
                /\ v.type = "undefined" => s = 3
                /\ v = Str(<<"x">>) => s = 3

ScoresCoercedWitness ==
    /\ lastOp.op = "analyze"
    /\ lastOp.input.impactScore = Num(-15) /\ lastOp.result.impactScore = 1
    /\ lastOp.input.likelihoodScore = Num(25) /\ lastOp.result.likelihoodScore = 3
    /\ lastOp.input.confidenceScore = Num(99) /\ lastOp.result.confidenceScore = 5
    /\ lastOp.input.chiliScore = Undefined /\ lastOp.result.chiliScore = 3

(***************************************************************************)
(* Properties of the crawl_runs rows.                                      *)
(***************************************************************************)
\* C25: a crawl_runs row whose status is completed or failed is never
\* written again: no step changes its status, its counts, its error message or
\* any other column.
RunsSettleOnce ==
    [][ \A i \in 1..Len(crawl_runs) :
            crawl_runs[i].status \in {"completed", "failed"}
                => (i <= Len(crawl_runs') /\ crawl_runs'[i] = crawl_runs[i]) ]_vars

(***************************************************************************)
(* Properties of the errors of the store.                                  *)
(***************************************************************************)
\* C26: upsertEvent of an input with valid scores, stage and age bracket and
\* an existing source returns new, updated or duplicate in every reachable
\* store; it never raises.
UpsertNeverRaises ==
    ( /\ lastOp.op = "upsert"
      /\ checkConstraints(insertedRow(0, lastOp.input, 0))
      /\ \E i \in 1..Len(sources) : sources[i].id = lastOp.input.sourceId )
        => lastOp.result \in {"new", "updated", "duplicate"}

(***************************************************************************)
(* Properties of the trigger across restarts.                              *)
(***************************************************************************)
\* C27: the trigger answers 409 only while an invocation of the pipeline is
\* executing; a run that a restart interrupted does not keep later triggers
\* out.
ConflictOnlyWhileExecuting ==
    [][ (lastOp' # lastOp /\ lastOp'.op = "trigger" /\ lastOp'.result = 409)
            => \E k \in 1..MaxInFlight : inv[k].pc # "idle" ]_vars

(***************************************************************************)
(* Properties of the result of a run.                                      *)
(***************************************************************************)
\* C28: in the result of a run that completes with at least one crawled item,
\* itemsNew + itemsUpdated + itemsDuplicate plus the number of persist errors
\* equals itemsRelevant.
TalliesCoverRelevant ==
    (isCompletedRun /\ lastOp.value.itemsCrawled >= 1)
        => lastOp.value.itemsNew + lastOp.value.itemsUpdated + lastOp.value.itemsDuplicate
              + Len(lastOp.value.errors) = lastOp.value.itemsRelevant

\* reached: a completed run with a stored event and a persist error
TalliesCoverRelevantWitness ==
    /\ isCompletedRun
    /\ lastOp.value.itemsCrawled >= 1
    /\ lastOp.value.itemsNew + lastOp.value.itemsUpdated >= 1
    /\ Len(lastOp.value.errors) >= 1

(***************************************************************************)
(* Properties of the "updated" branch.                                     *)
(***************************************************************************)
keptColumns ==
    { "id", "title", "jurisdiction_country", "jurisdiction_state", "source_url_link",
      "raw_text", "effective_date", "published_date", "source_id", "created_at",
      "is_under16_applicable" }

writtenColumns ==
    { "stage", "summary", "business_impact", "required_solutions", "affected_products",
      "competitor_responses", "age_bracket", "impact_score", "likelihood_score",
      "confidence_score", "chili_score", "updated_at" }

\* C29: an upsert that returns updated leaves every column of the matched
\* event outside stage, summary, business impact, the lists, age bracket, the
\* four scores and updated_at as it was, leaves every other event and every
\* stored history row as it was, and appends one history row for the matched
\* event; no upsert removes an event.
UpdateFrame ==
    [][ /\ isUpsertStep =>
              /\ Len(events') >= Len(events)
              /\ \A i \in 1..Len(events) : events'[i].id = events[i].id
        /\ (isUpsertStep /\ lastOp'.result = "updated") =>
              /\ Len(events') = Len(events)
              /\ DOMAIN events'[1] = keptColumns \cup writtenColumns
              /\ \A i \in 1..Len(events) :
                    IF events[i].id = lastOp'.matched
                    THEN \A f \in keptColumns : events'[i][f] = events[i][f]
                    ELSE events'[i] = events[i]
              /\ Len(event_history') = Len(event_history) + 1
              /\ SubSeq(event_history', 1, Len(event_history)) = event_history
              /\ event_history'[Len(event_history')].event_id = lastOp'.matched ]_vars

\* reached: an event was updated from an input whose title, URL, text and
\* dates are written differently, and its row shows the new stage
UpdateFrameWitness ==
    /\ lastOp.op = "upsert"
    /\ lastOp.result = "updated"
    /\ \E i \in 1..Len(events) :
          /\ events[i].id = lastOp.matched
          /\ events[i].stage = lastOp.input.stage
          /\ events[i].title # lastOp.input.title
          /\ events[i].source_url_link # lastOp.input.sourceUrlLink
          /\ events[i].raw_text # lastOp.input.rawText
          /\ events[i].published_date # lastOp.input.publishedDate

(***************************************************************************)
(* Properties of ensureSource.                                             *)
(***************************************************************************)
\* C30: every call of ensureSource returns, without raising, the id of a row
\* whose name and url are those of the call, and a call with another name than
\* the call before it receives another id.
EnsureSourceReturnsOwnRow ==
    lastOp.op = "ensureSource" =>
        /\ lastOp.result = "returned"
        /\ \E i \in 1..Len(sources) :
              /\ sources[i].id = lastOp.matched
              /\ sources[i].name = lastOp.input.name
              /\ sources[i].url = lastOp.input.url
        /\ lastOp.before.name # lastOp.input.name => lastOp.before.id # lastOp.matched

====
